---- MODULE Spec2Model ----
(***************************************************************************)
(* Ownership-transfer protocol of ffi_types (include/rust_types.hxx).      *)
(*                                                                         *)
(* The model follows the non-MSVC build (the #else branches, in which      *)
(* _COPY_DELETE is `delete`) compiled as C++17 or later.  A C++ object is  *)
(* a slot of `mem`; a method is an operator that takes the store (a record *)
(* of the memory, the drop calls made so far in the current operation and  *)
(* the value returned) and the slots of the objects it is applied to, and  *)
(* gives the store after the call, so that a reference that aliases its    *)
(* target (self move assignment, as_c()) behaves as in the code.           *)
(***************************************************************************)
EXTENDS Integers, Sequences, FiniteSets, TLC

(***************************************************************************)
(* Bounds of the model.                                                    *)
(***************************************************************************)
NumSlots == 3
NumAllocs == 1
NumClones == 1
MaxLen == 1
MaxDrops == 2
BufLen == 2
MaxViews == 2

(***************************************************************************)
(* Pointer values.  nullptr is 0, EMPTY_SLICE_BEGIN(T) is the address 1,   *)
(* the allocations of the native side are FirstAlloc, FirstAlloc + 1, ...: *)
(* NumAllocs of them are handed to the caller and NumClones more are made  *)
(* by the clone functions.                                                 *)
(***************************************************************************)
VARIABLES family, impl, twin, mem, nalloc, dropCount, last, heap

vars == <<family, impl, twin, mem, nalloc, dropCount, last, heap>>

NULL == 0
EMPTY_SLICE_BEGIN == 1
FirstAlloc == EMPTY_SLICE_BEGIN + 1

LastAlloc == FirstAlloc + NumAllocs + NumClones - 1
Alloc == FirstAlloc .. LastAlloc
Sizes == 0 .. MaxLen

\* Slots are the program's variables; TMP is the local variable of a method
\* body, ARG the by-value argument of an external call and TEMP the temporary
\* of a full expression: the three are dead between two operations.
Slots == 1 .. NumSlots
TMP == NumSlots + 1
ARG == NumSlots + 2
TEMP == NumSlots + 3
Cells == Slots \cup {TMP, ARG, TEMP}

BoxKinds == {"OptionBox", "CBox"}
OwnedKinds == {"OptionBox", "BoxedSlice", "BoxedStr"}
TwinKinds == {"CBox", "CBoxedSlice", "CBoxedByteSlice", "CBoxedStr"}
\* The borrowed views, and among them the mutable ones.
ViewKinds == {"MutSliceRef", "SliceRef", "CMutSliceRef", "CSliceRef", "CByteSliceRef",
              "CharStrRef", "StrRef", "CStrRef"}
MutViewKinds == {"MutSliceRef", "CMutSliceRef"}
Families == {"Box", "Slice", "ByteSlice", "Str"}
Impls == {"cxx", "cpp"}

\* The owned type of a family: OptionBox<T>, BoxedSlice<T>, BoxedSlice<uint8_t>, BoxedStr.
OwnedOf(f) ==
    CASE f = "Box" -> "OptionBox"
      [] f = "Slice" -> "BoxedSlice"
      [] f = "ByteSlice" -> "BoxedSlice"
      [] f = "Str" -> "BoxedStr"

\* The boundary twins an owned type of a family converts to.
TwinsOf(f) ==
    CASE f = "Box" -> {"CBox"}
      [] f = "Slice" -> {"CBoxedSlice"}
      [] f = "ByteSlice" -> {"CBoxedSlice", "CBoxedByteSlice"}
      [] f = "Str" -> {"CBoxedStr"}

\* An object: its type and its fields (_ptr of a box is kept in data, with size 0).
Obj(k, p, n) == [kind |-> k, data |-> p, size |-> n]
Dead == Obj("dead", NULL, 0)

\* _SliceRange<T>{_data, _size}; a bare pointer is a range of size 0.
SliceRange(p, n) == [data |-> p, size |-> n]
NoRange == SliceRange(NULL, 0)

\* A call of a drop function with the pointer and the length it was given.
DropCall(f, p, n) == [fn |-> f, data |-> p, size |-> n]

\* The store threaded through the methods of one operation: the memory, the
\* drop calls made, the value returned and the calls of the clone functions.
Store(m) == [mem |-> m, log |-> <<>>, ret |-> NoRange, ext |-> <<>>, fail |-> FALSE]

\* assert(e) of <cassert>: nothing when NDEBUG is defined or e holds, else the
\* program is aborted.
assert(st, e, ndebug) == IF ndebug \/ e THEN st ELSE [st EXCEPT !.fail = TRUE]

\* a _wrap_null that lets a null pointer through
_wrap_null_identity(ptr) == ptr

_wrap_null(ptr) == IF ptr # NULL THEN ptr ELSE EMPTY_SLICE_BEGIN

(***************************************************************************)
(* OptionBox<T>, Box<T> and CBox<T>.                                       *)
(***************************************************************************)
OptionBox_get(st, s) == st.mem[s].data

\* explicit operator bool(): return get() != nullptr;
OptionBox_bool(st, s) == OptionBox_get(st, s) # NULL

\* an operator==(nullptr) that answers as operator!= does
OptionBox_eq_null_inverted(st, s) == OptionBox_get(st, s) # NULL

\* bool operator==(std::nullptr_t): return get() == nullptr;
OptionBox_eq_null(st, s) == OptionBox_get(st, s) = NULL

\* bool operator!=(std::nullptr_t): return get() != nullptr;
OptionBox_ne_null(st, s) == OptionBox_get(st, s) # NULL

\* release() that returns the pointer and forgets to clear the handle
OptionBox_release_keep(st, s) ==
    [st EXCEPT !.ret = SliceRange(st.mem[s].data, 0)]

\* T* release(): auto* ptr = _ptr; _ptr = 0; return ptr;
OptionBox_release(st, s) ==
    [st EXCEPT !.mem[s].data = NULL, !.ret = SliceRange(st.mem[s].data, 0)]

\* void _drop(): supplied by the user of the header for each T, it hands the
\* pointer to the native side; the call is recorded with the pointer held.
OptionBox_drop(st, s) ==
    [st EXCEPT !.log = Append(@, DropCall("OptionBox::_drop", st.mem[s].data, 0))]


\* a destructor that calls _drop() without the null test
OptionBox_dtor_unchecked(st, s) ==
    [OptionBox_drop(st, s) EXCEPT !.mem[s] = Dead]

\* ~OptionBox(): if (get()) _drop();
OptionBox_dtor(st, s) ==
    LET a == IF OptionBox_get(st, s) # NULL THEN OptionBox_drop(st, s) ELSE st
    IN  [a EXCEPT !.mem[s] = Dead]

\* void reset(pointer p): if (get()) _drop(); _ptr = p;
OptionBox_reset(st, s, p) ==
    LET a == IF OptionBox_get(st, s) # NULL THEN OptionBox_drop(st, s) ELSE st
    IN  [a EXCEPT !.mem[s].data = p]

\* explicit OptionBox(pointer p) : _ptr(p)  and  OptionBox(nullptr_t) : _ptr(nullptr)
OptionBox_ctor(st, d, p) == [st EXCEPT !.mem[d] = Obj("OptionBox", p, 0)]

\* a Box constructor without the assertion
Box_ctor_unchecked(st, d, p, ndebug) == OptionBox_ctor(st, d, p)

\* explicit Box(T* p) : OptionBox<T>(p) { assert(p != nullptr); }
\* A Box is an OptionBox from then on: it adds no member and no operation.
Box_ctor(st, d, p, ndebug) == assert(OptionBox_ctor(st, d, p), p # NULL, ndebug)

\* OptionBox(OptionBox&& b) : _ptr(b.release())
OptionBox_move_ctor(st, d, s) ==
    LET r == OptionBox_release(st, s)
    IN  [r EXCEPT !.mem[d] = Obj("OptionBox", r.ret.data, 0)]

\* operator=(OptionBox&& b): _ptr = b.release();
OptionBox_move_assign(st, d, s) ==
    LET r == OptionBox_release(st, s)
    IN  [r EXCEPT !.mem[d].data = r.ret.data]


\* a conversion that copies the pointer and leaves it in the box
CBox_from_copy(st, d, s) ==
    [st EXCEPT !.mem[d] = Obj("CBox", st.mem[s].data, 0)]

\* CBox(OptionBox<T>&& box) : _ptr(box.release()), CBox::from and OptionBox::into
CBox_from(st, d, s) ==
    LET r == OptionBox_release(st, s)
    IN  [r EXCEPT !.mem[d] = Obj("CBox", r.ret.data, 0)]

OptionBox_into(st, d, s) == CBox_from(st, d, s)

\* CBox(CBox&&) = default: the pointer is copied, the source keeps it.
CBox_move_ctor(st, d, s) == [st EXCEPT !.mem[d] = Obj("CBox", st.mem[s].data, 0)]

\* CBox& operator=(CBox&&) = default
CBox_move_assign(st, d, s) == [st EXCEPT !.mem[d].data = st.mem[s].data]

\* T* CBox::release(): auto* ptr = _ptr; _ptr = nullptr; return ptr;
CBox_release(st, s) ==
    [st EXCEPT !.mem[s].data = NULL, !.ret = SliceRange(st.mem[s].data, 0)]

\* OptionBox<T> CBox::operator()(): box(nullptr); box.reset(_ptr); _ptr = nullptr;
\* return box;  The local is the result itself when the copy is elided
\* (nrvo), otherwise the result is move-constructed from it and it is destroyed.
CBox_call(st, d, s, nrvo) ==
    LET box == IF nrvo THEN d ELSE TMP
        a == OptionBox_ctor(st, box, NULL)
        b == OptionBox_reset(a, box, a.mem[s].data)
        c == [b EXCEPT !.mem[s].data = NULL]
    IN  IF nrvo THEN c ELSE OptionBox_dtor(OptionBox_move_ctor(c, d, TMP), TMP)

(***************************************************************************)
(* BoxedSlice<T>, CBoxedSlice<T> and CBoxedByteSlice.                      *)
(***************************************************************************)
\* _SliceInterface::get(): {data(), size()}
SliceInterface_get(st, s) == SliceRange(st.mem[s].data, st.mem[s].size)

\* ranges::data(range) and ranges::size(range) of a slice: its begin() and end() - begin()
ranges_data(st, s) == st.mem[s].data
ranges_size(st, s) == st.mem[s].size

\* _SliceRange<T> release(): range = get(); _data = EMPTY_SLICE_BEGIN(T); _size = 0;
BoxedSlice_release(st, s) ==
    [st EXCEPT !.mem[s].data = EMPTY_SLICE_BEGIN, !.mem[s].size = 0,
               !.ret = SliceInterface_get(st, s)]


\* release() of the twin that returns the range and leaves it in the twin
CBoxedSlice_release_keep(st, s) ==
    [st EXCEPT !.ret = SliceRange(st.mem[s].data, st.mem[s].size)]

CBoxedSlice_release(st, s) ==
    [st EXCEPT !.mem[s].data = EMPTY_SLICE_BEGIN, !.mem[s].size = 0,
               !.ret = SliceRange(st.mem[s].data, st.mem[s].size)]

CBoxedByteSlice_release(st, s) ==
    [st EXCEPT !.mem[s].data = EMPTY_SLICE_BEGIN, !.mem[s].size = 0,
               !.ret = SliceRange(st.mem[s].data, st.mem[s].size)]

\* CBoxedSlice(BoxedSlice<T>&& slice): r = slice.release(); _data = r._data; _size = r._size;
CBoxedSlice_from(st, d, s) ==
    LET r == BoxedSlice_release(st, s)
    IN  [r EXCEPT !.mem[d] = Obj("CBoxedSlice", r.ret.data, r.ret.size)]

\* CBoxedByteSlice(BoxedByteSlice&& boxed): _data = boxed._data; _size = boxed._size;
CBoxedByteSlice_from(st, d, s) ==
    [st EXCEPT !.mem[d] = Obj("CBoxedByteSlice", st.mem[s].data, st.mem[s].size)]

BoxedSlice_into(st, d, s) == CBoxedSlice_from(st, d, s)

\* The external function takes the twin by value and consumes it.
rust_ffi_boxed_bytes_drop(st) ==
    [st EXCEPT !.log = Append(@, DropCall("_rust_ffi_boxed_bytes_drop",
                                          st.mem[ARG].data, st.mem[ARG].size)),
               !.mem[ARG] = Dead]

\* BoxedSlice<uint8_t>::_drop(): _rust_ffi_boxed_bytes_drop(CBoxedByteSlice::from(std::move(*this)))
BoxedByteSlice_drop_cxx(st, s) == rust_ffi_boxed_bytes_drop(CBoxedByteSlice_from(st, ARG, s))

\* the same in 8cpp_impl.hxx, through CBoxedSlice<uint8_t>::from
BoxedByteSlice_drop_cpp(st, s) == rust_ffi_boxed_bytes_drop(CBoxedSlice_from(st, ARG, s))

\* BoxedSlice<T>::_drop() for another T is supplied by the user of the header.
BoxedSlice_drop_T(st, s) ==
    [st EXCEPT !.log = Append(@, DropCall("BoxedSlice::_drop", st.mem[s].data, st.mem[s].size))]

BoxedSlice_drop(st, s) ==
    CASE family = "ByteSlice" /\ impl = "cxx" -> BoxedByteSlice_drop_cxx(st, s)
      [] family = "ByteSlice" /\ impl = "cpp" -> BoxedByteSlice_drop_cpp(st, s)
      [] OTHER -> BoxedSlice_drop_T(st, s)

\* ~BoxedSlice(): if (_size > 0) _drop();
BoxedSlice_dtor(st, s) ==
    LET a == IF st.mem[s].size > 0 THEN BoxedSlice_drop(st, s) ELSE st
    IN  [a EXCEPT !.mem[s] = Dead]

\* reset() that stores the new range before it drops
BoxedSlice_reset_store_first(st, s, r) ==
    LET a == [st EXCEPT !.mem[s].data = r.data, !.mem[s].size = r.size]
    IN  IF st.mem[s].size > 0 THEN BoxedSlice_drop(a, s) ELSE a

\* void reset(_SliceRange<T> s): if (_size > 0) _drop(); _data = s._data; _size = s._size;
BoxedSlice_reset(st, s, r) ==
    LET a == IF st.mem[s].size > 0 THEN BoxedSlice_drop(st, s) ELSE st
    IN  [a EXCEPT !.mem[s].data = r.data, !.mem[s].size = r.size]

\* BoxedSlice(nullptr_t) : MutSliceRef<T>()
BoxedSlice_ctor(st, d) == [st EXCEPT !.mem[d] = Obj("BoxedSlice", EMPTY_SLICE_BEGIN, 0)]

\* BoxedSlice(BoxedSlice<T>&& s) : MutSliceRef<T>(s) { s._data = EMPTY_SLICE_BEGIN(T); s._size = 0; }
\* s is an lvalue of the derived type, so the base is built by the range
\* constructor MutSliceRef(SAFE_R range): _data(_wrap_null(ranges::data(range))).
BoxedSlice_move_ctor(st, d, s) ==
    LET a == [st EXCEPT !.mem[d] = Obj("BoxedSlice", _wrap_null(ranges_data(st, s)),
                                       ranges_size(st, s))]
    IN  [a EXCEPT !.mem[s].data = EMPTY_SLICE_BEGIN, !.mem[s].size = 0]

\* an assignment that drops what the handle holds before it takes from b
BoxedSlice_move_assign_drop_first(st, d, s) ==
    LET a == BoxedSlice_reset(st, d, SliceRange(EMPTY_SLICE_BEGIN, 0))
        r == BoxedSlice_release(a, s)
    IN  [r EXCEPT !.mem[d].data = r.ret.data, !.mem[d].size = r.ret.size]

\* operator=(BoxedSlice<T>&& b): reset(b.release());
BoxedSlice_move_assign(st, d, s) ==
    LET r == BoxedSlice_release(st, s)
    IN  BoxedSlice_reset(r, d, r.ret)

\* CBoxedSlice(CBoxedSlice&&) = default and operator=(CBoxedSlice&&) = default
CBoxedSlice_move_ctor(st, d, s) ==
    [st EXCEPT !.mem[d] = Obj("CBoxedSlice", st.mem[s].data, st.mem[s].size)]

CBoxedSlice_move_assign(st, d, s) ==
    [st EXCEPT !.mem[d].data = st.mem[s].data, !.mem[d].size = st.mem[s].size]

\* BoxedSlice<T> CBoxedSlice::operator()(): slice(nullptr); r = release();
\* slice._data = r._data; slice._size = r._size; return slice;
CBoxedSlice_call(st, d, s, nrvo) ==
    LET slice == IF nrvo THEN d ELSE TMP
        a == BoxedSlice_ctor(st, slice)
        r == CBoxedSlice_release(a, s)
        b == [r EXCEPT !.mem[slice].data = r.ret.data, !.mem[slice].size = r.ret.size]
    IN  IF nrvo THEN b ELSE BoxedSlice_dtor(BoxedSlice_move_ctor(b, d, TMP), TMP)

\* CBoxedByteSlice(const CBoxedByteSlice&) = default: a copy, also for an
\* rvalue argument (no move constructor is declared).
CBoxedByteSlice_copy_ctor(st, d, s) ==
    [st EXCEPT !.mem[d] = Obj("CBoxedByteSlice", st.mem[s].data, st.mem[s].size)]

\* CBoxedByteSlice& operator=(const CBoxedByteSlice&) = default
CBoxedByteSlice_copy_assign(st, d, s) ==
    [st EXCEPT !.mem[d].data = st.mem[s].data, !.mem[d].size = st.mem[s].size]

\* BoxedByteSlice CBoxedByteSlice::operator()()
CBoxedByteSlice_call(st, d, s, nrvo) ==
    LET slice == IF nrvo THEN d ELSE TMP
        a == BoxedSlice_ctor(st, slice)
        r == CBoxedByteSlice_release(a, s)
        b == [r EXCEPT !.mem[slice].data = r.ret.data, !.mem[slice].size = r.ret.size]
    IN  IF nrvo THEN b ELSE BoxedSlice_dtor(BoxedSlice_move_ctor(b, d, TMP), TMP)

(***************************************************************************)
(* BoxedStr and CBoxedStr.                                                 *)
(***************************************************************************)
\* _SliceRange<const char> release(): range = get(); _data = EMPTY_SLICE_BEGIN; _size = 0;
BoxedStr_release(st, s) ==
    [st EXCEPT !.mem[s].data = EMPTY_SLICE_BEGIN, !.mem[s].size = 0,
               !.ret = SliceRange(st.mem[s].data, st.mem[s].size)]

CBoxedStr_release(st, s) ==
    [st EXCEPT !.mem[s].data = EMPTY_SLICE_BEGIN, !.mem[s].size = 0,
               !.ret = SliceRange(st.mem[s].data, st.mem[s].size)]

\* CBoxedStr(BoxedStr&& str): r = str.release(); _data = r._data; _size = r._size;
CBoxedStr_from(st, d, s) ==
    LET r == BoxedStr_release(st, s)
    IN  [r EXCEPT !.mem[d] = Obj("CBoxedStr", r.ret.data, r.ret.size)]

rust_ffi_boxed_str_drop(st) ==
    [st EXCEPT !.log = Append(@, DropCall("_rust_ffi_boxed_str_drop",
                                          st.mem[ARG].data, st.mem[ARG].size)),
               !.mem[ARG] = Dead]

\* BoxedStr::_drop(): _rust_ffi_boxed_str_drop(CBoxedStr::from(std::move(*this)))
BoxedStr_drop(st, s) == rust_ffi_boxed_str_drop(CBoxedStr_from(st, ARG, s))


\* a destructor that tests the data pointer instead of the length
BoxedStr_dtor_by_pointer(st, s) ==
    LET a == IF st.mem[s].data # EMPTY_SLICE_BEGIN THEN BoxedStr_drop(st, s) ELSE st
    IN  [a EXCEPT !.mem[s] = Dead]

\* ~BoxedStr(): if (_size > 0) _drop();
BoxedStr_dtor(st, s) ==
    LET a == IF st.mem[s].size > 0 THEN BoxedStr_drop(st, s) ELSE st
    IN  [a EXCEPT !.mem[s] = Dead]

\* void reset(_SliceRange<const char> s)
BoxedStr_reset(st, s, r) ==
    LET a == IF st.mem[s].size > 0 THEN BoxedStr_drop(st, s) ELSE st
    IN  [a EXCEPT !.mem[s].data = r.data, !.mem[s].size = r.size]

\* BoxedStr(nullptr_t) : StrRef(nullptr)
BoxedStr_ctor(st, d) == [st EXCEPT !.mem[d] = Obj("BoxedStr", EMPTY_SLICE_BEGIN, 0)]

\* BoxedStr(BoxedStr&& s) : StrRef(s) { s._data = EMPTY_SLICE_BEGIN; s._size = 0; }
\* StrRef(const BoxedStr& owned) : CharStrRef(owned._data, owned._size), and
\* CharStrRef(head, size) : _data(_wrap_null(head)), _size(size).
BoxedStr_move_ctor(st, d, s) ==
    LET a == [st EXCEPT !.mem[d] = Obj("BoxedStr", _wrap_null(st.mem[s].data), st.mem[s].size)]
    IN  [a EXCEPT !.mem[s].data = EMPTY_SLICE_BEGIN, !.mem[s].size = 0]

\* operator=(BoxedStr&& b): reset(b.release());
BoxedStr_move_assign(st, d, s) ==
    LET r == BoxedStr_release(st, s)
    IN  BoxedStr_reset(r, d, r.ret)

\* CBoxedStr(CBoxedStr&&) = default and operator=(CBoxedStr&&) = default
CBoxedStr_move_ctor(st, d, s) ==
    [st EXCEPT !.mem[d] = Obj("CBoxedStr", st.mem[s].data, st.mem[s].size)]

CBoxedStr_move_assign(st, d, s) ==
    [st EXCEPT !.mem[d].data = st.mem[s].data, !.mem[d].size = st.mem[s].size]

\* BoxedStr CBoxedStr::operator()()
CBoxedStr_call(st, d, s, nrvo) ==
    LET slice == IF nrvo THEN d ELSE TMP
        a == BoxedStr_ctor(st, slice)
        r == CBoxedStr_release(a, s)
        b == [r EXCEPT !.mem[slice].data = r.ret.data, !.mem[slice].size = r.ret.size]
    IN  IF nrvo THEN b ELSE BoxedStr_dtor(BoxedStr_move_ctor(b, d, TMP), TMP)

(***************************************************************************)
(* Dispatch on the static type of the object in a slot.                    *)
(***************************************************************************)
IsOwned(o) == o.kind \in OwnedKinds
IsTwin(o) == o.kind \in TwinKinds

Release(st, s) ==
    CASE st.mem[s].kind = "OptionBox" -> OptionBox_release(st, s)
      [] st.mem[s].kind = "BoxedSlice" -> BoxedSlice_release(st, s)
      [] st.mem[s].kind = "BoxedStr" -> BoxedStr_release(st, s)
      [] st.mem[s].kind = "CBox" -> CBox_release(st, s)
      [] st.mem[s].kind = "CBoxedSlice" -> CBoxedSlice_release(st, s)
      [] st.mem[s].kind = "CBoxedByteSlice" -> CBoxedByteSlice_release(st, s)
      [] st.mem[s].kind = "CBoxedStr" -> CBoxedStr_release(st, s)

\* destructors in which a boundary twin gives back what it holds
Dtor_twin_drops(st, s) ==
    CASE st.mem[s].kind = "OptionBox" -> OptionBox_dtor(st, s)
      [] st.mem[s].kind = "BoxedSlice" -> BoxedSlice_dtor(st, s)
      [] st.mem[s].kind = "BoxedStr" -> BoxedStr_dtor(st, s)
      [] OTHER -> [st EXCEPT !.mem[s] = Dead,
                             !.log = Append(@, DropCall("twin", st.mem[s].data,
                                                        st.mem[s].size))]

\* The destructor of a boundary twin is trivial (std::is_trivial is asserted).
Dtor(st, s) ==
    CASE st.mem[s].kind = "OptionBox" -> OptionBox_dtor(st, s)
      [] st.mem[s].kind = "BoxedSlice" -> BoxedSlice_dtor(st, s)
      [] st.mem[s].kind = "BoxedStr" -> BoxedStr_dtor(st, s)
      [] OTHER -> [st EXCEPT !.mem[s] = Dead]

ResetTo(st, s, r) ==
    CASE st.mem[s].kind = "OptionBox" -> OptionBox_reset(st, s, r.data)
      [] st.mem[s].kind = "BoxedSlice" -> BoxedSlice_reset(st, s, r)
      [] st.mem[s].kind = "BoxedStr" -> BoxedStr_reset(st, s, r)

NullCtorOf(st, d, k) ==
    CASE k = "OptionBox" -> OptionBox_ctor(st, d, NULL)
      [] k = "BoxedSlice" -> BoxedSlice_ctor(st, d)
      [] k = "BoxedStr" -> BoxedStr_ctor(st, d)

MoveCtorOf(st, d, s) ==
    CASE st.mem[s].kind = "OptionBox" -> OptionBox_move_ctor(st, d, s)
      [] st.mem[s].kind = "BoxedSlice" -> BoxedSlice_move_ctor(st, d, s)
      [] st.mem[s].kind = "BoxedStr" -> BoxedStr_move_ctor(st, d, s)

MoveAssignOf(st, d, s) ==
    CASE st.mem[s].kind = "OptionBox" -> OptionBox_move_assign(st, d, s)
      [] st.mem[s].kind = "BoxedSlice" -> BoxedSlice_move_assign(st, d, s)
      [] st.mem[s].kind = "BoxedStr" -> BoxedStr_move_assign(st, d, s)

\* Conversion of the owned object in s to a twin of type k.
FromOf(st, d, s, k) ==
    CASE k = "CBox" -> CBox_from(st, d, s)
      [] k = "CBoxedSlice" -> CBoxedSlice_from(st, d, s)
      [] k = "CBoxedByteSlice" -> CBoxedByteSlice_from(st, d, s)
      [] k = "CBoxedStr" -> CBoxedStr_from(st, d, s)

\* as_c(): reinterpret_cast of the owned object to its twin.  OptionBox and
\* BoxedSlice give a mutable reference, BoxedStr a const one only.
TwinTypeOf(o) ==
    CASE o.kind = "OptionBox" -> "CBox"
      [] o.kind = "BoxedSlice" -> "CBoxedSlice"
      [] OTHER -> o.kind

IsTwinRef(o) == TwinTypeOf(o) \in TwinKinds

CallOf(st, d, s, nrvo) ==
    CASE TwinTypeOf(st.mem[s]) = "CBox" -> CBox_call(st, d, s, nrvo)
      [] TwinTypeOf(st.mem[s]) = "CBoxedSlice" -> CBoxedSlice_call(st, d, s, nrvo)
      [] TwinTypeOf(st.mem[s]) = "CBoxedByteSlice" -> CBoxedByteSlice_call(st, d, s, nrvo)
      [] TwinTypeOf(st.mem[s]) = "CBoxedStr" -> CBoxedStr_call(st, d, s, nrvo)

TwinMoveCtorOf(st, d, s) ==
    CASE TwinTypeOf(st.mem[s]) = "CBox" -> CBox_move_ctor(st, d, s)
      [] TwinTypeOf(st.mem[s]) = "CBoxedSlice" -> CBoxedSlice_move_ctor(st, d, s)
      [] TwinTypeOf(st.mem[s]) = "CBoxedStr" -> CBoxedStr_move_ctor(st, d, s)

TwinMoveAssignOf(st, d, s) ==
    CASE TwinTypeOf(st.mem[s]) = "CBox" -> CBox_move_assign(st, d, s)
      [] TwinTypeOf(st.mem[s]) = "CBoxedSlice" -> CBoxedSlice_move_assign(st, d, s)
      [] TwinTypeOf(st.mem[s]) = "CBoxedStr" -> CBoxedStr_move_assign(st, d, s)

(***************************************************************************)
(* The program: a caller that uses the handles in any order.  The native   *)
(* side hands out each allocation once; the caller passes to a constructor *)
(* or to reset only a value it got from the native side or from release(). *)
(***************************************************************************)
NoOp == [op |-> "init", h |-> TMP, d |-> TMP, pre |-> Dead, dpre |-> Dead,
         ret |-> NoRange, log |-> <<>>, ext |-> <<>>, fail |-> FALSE]

Init ==
    /\ family \in Families
    /\ impl \in IF family = "ByteSlice" THEN Impls ELSE {"cxx"}
    /\ twin \in IF impl = "cpp" THEN {"CBoxedSlice"} ELSE TwinsOf(family)
    /\ mem = [c \in Cells |-> Dead]
    /\ nalloc = 0
    /\ dropCount = [p \in Alloc |-> 0]
    /\ last = NoOp
    /\ heap = <<>>

NextFresh == FirstAlloc + nalloc

\* Values the native side or the caller can hand over: a null pointer, for a
\* slice the address 1 or null with length 0, or an address never handed out
\* before, with any length (length 0: the dangling address of an empty slice).
NativeValues ==
    LET empty == IF family = "Box" THEN {NULL} ELSE {NULL, EMPTY_SLICE_BEGIN}
        fresh == IF nalloc < NumAllocs THEN {NextFresh} ELSE {}
        lens == IF family = "Box" THEN {0} ELSE Sizes
    IN  {SliceRange(p, 0) : p \in empty} \cup {SliceRange(p, n) : p \in fresh, n \in lens}

\* Values the caller may wrap: native ones, or the one release() just returned.
Inputs ==
    {[r |-> v, src |-> "native"] : v \in NativeValues}
      \cup (IF last.op = "release" THEN {[r |-> last.ret, src |-> "raw"]} ELSE {})

\* number of calls in log made with pointer p
RECURSIVE CallsOn(_, _)
CallsOn(log, p) ==
    IF log = <<>> THEN 0
    ELSE (IF Head(log).data = p THEN 1 ELSE 0) + CallsOn(Tail(log), p)

RECURSIVE SumTo(_, _)
SumTo(f, p) == IF p < FirstAlloc THEN 0 ELSE f[p] + SumTo(f, p - 1)

\* The number of drop calls of a behaviour is capped.
CanDrop == SumTo(dropCount, LastAlloc) < MaxDrops

\* An operation whose assertion failed aborts the program: its objects are
\* gone without any destructor, and nothing runs afterwards.
Commit(st, op, h, d, ret) ==
    /\ ~last.fail
    /\ st.log # <<>> => CanDrop
    /\ heap' = heap
    /\ mem' = IF st.fail THEN [c \in Cells |-> Dead] ELSE st.mem
    /\ dropCount' = [p \in Alloc |-> dropCount[p] + CallsOn(st.log, p)]
    /\ last' = [op |-> op, h |-> h, d |-> d, pre |-> mem[h], dpre |-> mem[d],
                ret |-> ret, log |-> st.log, ext |-> st.ext, fail |-> st.fail]

Consume(in) ==
    nalloc' = IF in.src = "native" /\ in.r.data \in Alloc THEN nalloc + 1 ELSE nalloc

\* OptionBox<T> b(p);
Wrap(d, in) ==
    /\ family = "Box"
    /\ mem[d] = Dead
    /\ Commit(OptionBox_ctor(Store(mem), d, in.r.data), "wrap", TMP, d, in.r)
    /\ Consume(in)
    /\ UNCHANGED <<family, impl, twin>>

\* Box<T> b(p);  in a build with assertions or with NDEBUG defined
WrapBox(d, in, ndebug) ==
    /\ family = "Box"
    /\ mem[d] = Dead
    /\ Commit(Box_ctor(Store(mem), d, in.r.data, ndebug),
              IF ndebug THEN "wrapbox_ndebug" ELSE "wrapbox", TMP, d, in.r)
    /\ Consume(in)
    /\ UNCHANGED <<family, impl, twin>>

\* OptionBox<T> b(nullptr);  BoxedSlice<T> b(nullptr);  BoxedStr b(nullptr);
NullCtor(d) ==
    /\ mem[d] = Dead
    /\ Commit(NullCtorOf(Store(mem), d, OwnedOf(family)), "null", TMP, d, NoRange)
    /\ UNCHANGED <<family, impl, twin, nalloc>>

\* H d(std::move(s));
MoveCtor(d, s) ==
    /\ IsOwned(mem[s])
    /\ mem[d] = Dead
    /\ Commit(MoveCtorOf(Store(mem), d, s), "move", s, d, NoRange)
    /\ UNCHANGED <<family, impl, twin, nalloc>>

\* d = std::move(s);
MoveAssign(d, s) ==
    /\ IsOwned(mem[s])
    /\ IsOwned(mem[d])
    /\ Commit(MoveAssignOf(Store(mem), d, s), "assign", s, d, NoRange)
    /\ UNCHANGED <<family, impl, twin, nalloc>>

\* s.release(): the caller keeps the value returned.
ReleaseOp(s) ==
    /\ IsOwned(mem[s]) \/ IsTwin(mem[s])
    /\ LET st == Release(Store(mem), s)
       IN  Commit(st, "release", s, TMP, st.ret)
    /\ UNCHANGED <<family, impl, twin, nalloc>>

\* s.reset(v);  The value given is recorded in place of a value returned.
Reset(s, in) ==
    /\ IsOwned(mem[s])
    /\ Commit(ResetTo(Store(mem), s, in.r), "reset", s, TMP, in.r)
    /\ Consume(in)
    /\ UNCHANGED <<family, impl, twin>>

\* auto d = s.into();  auto d = C::from(std::move(s));  C d(std::move(s));
Into(d, s, k) ==
    /\ IsOwned(mem[s])
    /\ k = twin
    /\ mem[d] = Dead
    /\ Commit(FromOf(Store(mem), d, s, k), "into", s, d, NoRange)
    /\ UNCHANGED <<family, impl, twin, nalloc>>

\* auto d = s();  where s is a twin, or auto d = s.as_c()();
Call(d, s, nrvo) ==
    /\ IsTwinRef(mem[s])
    /\ mem[d] = Dead
    /\ Commit(CallOf(Store(mem), d, s, nrvo), "call", s, d, NoRange)
    /\ UNCHANGED <<family, impl, twin, nalloc>>

\* auto d = s.into()();  auto d = C::from(std::move(s))();  The twin is a
\* temporary, destroyed at the end of the full expression.
RoundTrip(d, s, nrvo) ==
    /\ IsOwned(mem[s])
    /\ mem[d] = Dead
    /\ Commit(Dtor(CallOf(FromOf(Store(mem), TEMP, s, twin), d, TEMP, nrvo), TEMP),
              "roundtrip", s, d, NoRange)
    /\ UNCHANGED <<family, impl, twin, nalloc>>

\* The object in s goes out of scope.
Destroy(s) ==
    /\ mem[s] # Dead
    /\ Commit(Dtor(Store(mem), s), "destroy", s, TMP, NoRange)
    /\ UNCHANGED <<family, impl, twin, nalloc>>

\* C d(std::move(s));  where s is a twin or an as_c() reference
TwinMoveCtor(d, s) ==
    /\ IsTwinRef(mem[s])
    /\ TwinTypeOf(mem[s]) # "CBoxedByteSlice"
    /\ mem[d] = Dead
    /\ Commit(TwinMoveCtorOf(Store(mem), d, s), "twinmove", s, d, NoRange)
    /\ UNCHANGED <<family, impl, twin, nalloc>>

\* d = std::move(s);  between twins or as_c() references of one type
TwinMoveAssign(d, s) ==
    /\ IsTwinRef(mem[s])
    /\ IsTwinRef(mem[d])
    /\ TwinTypeOf(mem[s]) = TwinTypeOf(mem[d])
    /\ TwinTypeOf(mem[s]) # "CBoxedByteSlice"
    /\ Commit(TwinMoveAssignOf(Store(mem), d, s), "twinassign", s, d, NoRange)
    /\ UNCHANGED <<family, impl, twin, nalloc>>

\* CBoxedByteSlice d(s);  CBoxedByteSlice d(std::move(s));
TwinCopyCtor(d, s) ==
    /\ mem[s].kind = "CBoxedByteSlice"
    /\ mem[d] = Dead
    /\ Commit(CBoxedByteSlice_copy_ctor(Store(mem), d, s), "twincopy", s, d, NoRange)
    /\ UNCHANGED <<family, impl, twin, nalloc>>

\* d = s;  d = std::move(s);  between two CBoxedByteSlice
TwinCopyAssign(d, s) ==
    /\ mem[s].kind = "CBoxedByteSlice"
    /\ mem[d].kind = "CBoxedByteSlice"
    /\ Commit(CBoxedByteSlice_copy_assign(Store(mem), d, s), "twincopyassign", s, d, NoRange)
    /\ UNCHANGED <<family, impl, twin, nalloc>>

\* A twin received from the native side, as an argument or a return value.
FromNative(d, k, v) ==
    /\ k = twin
    /\ mem[d] = Dead
    /\ Commit([Store(mem) EXCEPT !.mem[d] = Obj(k, v.data, v.size)], "native", TMP, d,
              NoRange)
    /\ Consume([r |-> v, src |-> "native"])
    /\ UNCHANGED <<family, impl, twin>>

\* The variables of the caller are interchangeable: a new object takes the
\* first slot that is free.
FreeSlot == {d \in Slots : mem[d] = Dead /\ \A e \in Slots : e < d => mem[e] # Dead}

Next ==
    \/ \E d \in FreeSlot : \E in \in Inputs : Wrap(d, in)
    \/ \E d \in FreeSlot : \E in \in Inputs : \E ndebug \in BOOLEAN : WrapBox(d, in, ndebug)
    \/ \E d \in FreeSlot : NullCtor(d)
    \/ \E d \in FreeSlot, s \in Slots : MoveCtor(d, s)
    \/ \E d, s \in Slots : MoveAssign(d, s)
    \/ \E s \in Slots : ReleaseOp(s)
    \/ \E s \in Slots : \E in \in Inputs : Reset(s, in)
    \/ \E d \in FreeSlot, s \in Slots : \E k \in TwinKinds : Into(d, s, k)
    \/ \E d \in FreeSlot, s \in Slots : \E nrvo \in BOOLEAN : Call(d, s, nrvo)
    \/ \E d \in FreeSlot, s \in Slots : \E nrvo \in BOOLEAN : RoundTrip(d, s, nrvo)
    \/ \E s \in Slots : Destroy(s)
    \/ \E d \in FreeSlot, s \in Slots : TwinMoveCtor(d, s)
    \/ \E d, s \in Slots : TwinMoveAssign(d, s)
    \/ \E d \in FreeSlot, s \in Slots : TwinCopyCtor(d, s)
    \/ \E d, s \in Slots : TwinCopyAssign(d, s)
    \/ \E d \in FreeSlot : \E k \in TwinKinds : \E v \in NativeValues : FromNative(d, k, v)

Spec == Init /\ [][Next]_vars

(***************************************************************************)
(* OptionBox<void>.  The header defines its _drop(); the other members are *)
(* those of OptionBox<T>.                                                  *)
(***************************************************************************)
\* a _drop() that hands the pointer to the native side as for another T
OptionBox_void_drop_calls(st, s, ndebug) == OptionBox_drop(st, s)

\* OptionBox<void>::_drop(): assert("void box doesn't support drop" && false);
OptionBox_void_drop(st, s, ndebug) == assert(st, FALSE, ndebug)

\* ~OptionBox(): if (get()) _drop();   with T = void
OptionBox_void_dtor(st, s, ndebug) ==
    LET a == IF OptionBox_get(st, s) # NULL THEN OptionBox_void_drop(st, s, ndebug) ELSE st
    IN  IF a.fail THEN a ELSE [a EXCEPT !.mem[s] = Dead]

\* void reset(pointer p): if (get()) _drop(); _ptr = p;   with T = void
OptionBox_void_reset(st, s, p, ndebug) ==
    LET a == IF OptionBox_get(st, s) # NULL THEN OptionBox_void_drop(st, s, ndebug) ELSE st
    IN  IF a.fail THEN a ELSE [a EXCEPT !.mem[s].data = p]

\* The object in s goes out of scope; in a build with assertions or with
\* NDEBUG defined.
VoidDestroy(s, ndebug) ==
    /\ mem[s] # Dead
    /\ Commit(IF mem[s].kind = "OptionBox" THEN OptionBox_void_dtor(Store(mem), s, ndebug)
              ELSE Dtor(Store(mem), s),
              IF ndebug THEN "destroy_ndebug" ELSE "destroy", s, TMP, NoRange)
    /\ UNCHANGED <<family, impl, twin, nalloc>>

\* s.reset(p);
VoidReset(s, in, ndebug) ==
    /\ mem[s].kind = "OptionBox"
    /\ Commit(OptionBox_void_reset(Store(mem), s, in.r.data, ndebug),
              IF ndebug THEN "reset_ndebug" ELSE "reset", s, TMP, in.r)
    /\ Consume(in)
    /\ UNCHANGED <<family, impl, twin>>

VoidInit == Init /\ family = "Box"

VoidNext ==
    \/ \E d \in FreeSlot : \E in \in Inputs : Wrap(d, in)
    \/ \E d \in FreeSlot : NullCtor(d)
    \/ \E d \in FreeSlot, s \in Slots : MoveCtor(d, s)
    \/ \E d, s \in Slots : MoveAssign(d, s)
    \/ \E s \in Slots : ReleaseOp(s)
    \/ \E d \in FreeSlot, s \in Slots : \E k \in TwinKinds : Into(d, s, k)
    \/ \E d \in FreeSlot, s \in Slots : \E nrvo \in BOOLEAN : Call(d, s, nrvo)
    \/ \E s \in Slots : \E ndebug \in BOOLEAN : VoidDestroy(s, ndebug)
    \/ \E s \in Slots : \E in \in Inputs : \E ndebug \in BOOLEAN : VoidReset(s, in, ndebug)

VoidSpec == VoidInit /\ [][VoidNext]_vars

\* _drop() of the handles whose drop function the header defines
DropOf(st, s) ==
    IF st.mem[s].kind = "BoxedStr" THEN BoxedStr_drop(st, s) ELSE BoxedSlice_drop(st, s)

\* s._drop();  _drop() is a public member.  As at its call sites in the
\* header, the handle holds something.
Drop(s) ==
    /\ family \in {"ByteSlice", "Str"}
    /\ IsOwned(mem[s]) /\ mem[s].size > 0
    /\ Commit(DropOf(Store(mem), s), "drop", s, TMP, NoRange)
    /\ UNCHANGED <<family, impl, twin, nalloc>>

\* { ...; s._drop(); }  The handle goes out of scope after the call.
DropDestroy(s) ==
    /\ family \in {"ByteSlice", "Str"}
    /\ IsOwned(mem[s]) /\ mem[s].size > 0
    /\ Commit(Dtor(DropOf(Store(mem), s), s), "drop_destroy", s, TMP, NoRange)
    /\ UNCHANGED <<family, impl, twin, nalloc>>

DropInit == Init /\ family \in {"ByteSlice", "Str"}

DropNext ==
    \/ \E d \in FreeSlot : NullCtor(d)
    \/ \E d \in FreeSlot : \E k \in TwinKinds : \E v \in NativeValues : FromNative(d, k, v)
    \/ \E d \in FreeSlot, s \in Slots : \E nrvo \in BOOLEAN : Call(d, s, nrvo)
    \/ \E d \in FreeSlot, s \in Slots : MoveCtor(d, s)
    \/ \E s \in Slots : ReleaseOp(s)
    \/ \E s \in Slots : Drop(s)
    \/ \E s \in Slots : DropDestroy(s)
    \/ \E s \in Slots : Destroy(s)

DropSpec == DropInit /\ [][DropNext]_vars

(***************************************************************************)
(* Borrowed views: MutSliceRef<T>, SliceRef<T>, CMutSliceRef<T>,           *)
(* CharStrRef and StrRef.  They own nothing and have trivial destructors.  *)
(***************************************************************************)
\* MutSliceRef() : _data(EMPTY_SLICE_BEGIN(T)), _size(0)
MutSliceRef_default(st, d) == [st EXCEPT !.mem[d] = Obj("MutSliceRef", EMPTY_SLICE_BEGIN, 0)]

\* explicit MutSliceRef(T* head, usize size) : _data(_wrap_null(head)), _size(size)
MutSliceRef_ctor(st, d, head, size) ==
    [st EXCEPT !.mem[d] = Obj("MutSliceRef", _wrap_null(head), size)]

\* MutSliceRef(SAFE_R range) : _data(_wrap_null(ranges::data(range))), _size(ranges::size(range))
\* The range is a _SliceRange, whose begin() is its pointer.
MutSliceRef_range_ctor(st, d, range) ==
    [st EXCEPT !.mem[d] = Obj("MutSliceRef", _wrap_null(range.data), range.size)]

\* SliceRef() : MutSliceRef<const T>()
SliceRef_default(st, d) == [MutSliceRef_default(st, d) EXCEPT !.mem[d].kind = "SliceRef"]

\* explicit SliceRef(const T* head, usize size) : MutSliceRef<const T>(head, size)
SliceRef_ctor(st, d, head, size) ==
    [MutSliceRef_ctor(st, d, head, size) EXCEPT !.mem[d].kind = "SliceRef"]

\* SliceRef(SAFE_R range) : MutSliceRef<const T>(range)
SliceRef_range_ctor(st, d, range) ==
    [MutSliceRef_range_ctor(st, d, range) EXCEPT !.mem[d].kind = "SliceRef"]

\* CMutSliceRef(const MutSliceRef<T>& slice): _data = slice._data; _size = slice._size;
CMutSliceRef_from(st, d, s) ==
    [st EXCEPT !.mem[d] = Obj("CMutSliceRef", st.mem[s].data, st.mem[s].size)]

\* MutSliceRef<T>::into(): return CMutSliceRef<T>::from(*this);
MutSliceRef_into(st, d, s) == CMutSliceRef_from(st, d, s)

\* CMutSliceRef::operator()(): return MutSliceRef<T>(_data, _size);
CMutSliceRef_call(st, d, s) == MutSliceRef_ctor(st, d, st.mem[s].data, st.mem[s].size)

\* CSliceRef(const SliceRef<T>& slice): _data = slice._data; _size = slice._size;
CSliceRef_from(st, d, s) ==
    [st EXCEPT !.mem[d] = Obj("CSliceRef", st.mem[s].data, st.mem[s].size)]

\* CByteSliceRef(const ByteSliceRef& slice): _data = slice._data; _size = slice._size;
CByteSliceRef_from(st, d, s) ==
    [st EXCEPT !.mem[d] = Obj("CByteSliceRef", st.mem[s].data, st.mem[s].size)]

\* an into() that takes the fields away from the slice
SliceRef_into_moving(st, d, s) ==
    [CSliceRef_from(st, d, s) EXCEPT !.mem[s].data = EMPTY_SLICE_BEGIN, !.mem[s].size = 0]

\* SliceRef<T>::into(): CByteSliceRef::from(*this) when T is uint8_t, else
\* CSliceRef<T>::from(*this)
SliceRef_into(st, d, s) ==
    IF family = "ByteSlice" THEN CByteSliceRef_from(st, d, s) ELSE CSliceRef_from(st, d, s)

\* CSliceRef::operator()(): return SliceRef<T>(_data, _size);
CSliceRef_call(st, d, s) == SliceRef_ctor(st, d, st.mem[s].data, st.mem[s].size)

\* CByteSliceRef::operator()(): ByteSliceRef slice; slice._data = _data;
\* slice._size = _size; return slice;
CByteSliceRef_call(st, d, s) ==
    [SliceRef_default(st, d) EXCEPT !.mem[d].data = st.mem[s].data,
                                    !.mem[d].size = st.mem[s].size]

\* into() of the views, by the type of the object
ViewIntoOf(st, d, s) ==
    IF st.mem[s].kind = "MutSliceRef" THEN MutSliceRef_into(st, d, s) ELSE SliceRef_into(st, d, s)

\* CharStrRef(const char* head, usize size) : _data(_wrap_null(head)), _size(size)
CharStrRef_ctor(st, d, head, size) ==
    [st EXCEPT !.mem[d] = Obj("CharStrRef", _wrap_null(head), size)]

\* CharStrRef(SAFE_R range) : _data(_wrap_null(ranges::data(range))), _size(ranges::size(range))
CharStrRef_range_ctor(st, d, range) ==
    [st EXCEPT !.mem[d] = Obj("CharStrRef", _wrap_null(range.data), range.size)]

\* CharStrRef(nullptr_t) : _data(EMPTY_SLICE_BEGIN(const char)), _size(0)
CharStrRef_nullptr(st, d) == [st EXCEPT !.mem[d] = Obj("CharStrRef", EMPTY_SLICE_BEGIN, 0)]

\* StrRef(nullptr_t) : CharStrRef(EMPTY_SLICE_BEGIN(const char), 0)
StrRef_nullptr(st, d) ==
    [CharStrRef_ctor(st, d, EMPTY_SLICE_BEGIN, 0) EXCEPT !.mem[d].kind = "StrRef"]

\* CStrRef::operator()(): auto s = StrRef(nullptr); s._data = this->_data;
\* s._size = this->_size; return s;
CStrRef_call(st, d, s) ==
    [StrRef_nullptr(st, d) EXCEPT !.mem[d].data = st.mem[s].data,
                                  !.mem[d].size = st.mem[s].size]

\* operator()() of the twins of the views, by the type of the object
ViewCallOf(st, d, s) ==
    CASE st.mem[s].kind = "CMutSliceRef" -> CMutSliceRef_call(st, d, s)
      [] st.mem[s].kind = "CSliceRef" -> CSliceRef_call(st, d, s)
      [] st.mem[s].kind = "CByteSliceRef" -> CByteSliceRef_call(st, d, s)
      [] st.mem[s].kind = "CStrRef" -> CStrRef_call(st, d, s)

\* StrRef(const BoxedStr& owned) : CharStrRef(owned._data, owned._size)
StrRef_from_BoxedStr(st, d, s) ==
    [CharStrRef_ctor(st, d, st.mem[s].data, st.mem[s].size) EXCEPT !.mem[d].kind = "StrRef"]

\* CharStrRef::as_str_unchecked(): return *reinterpret_cast<const StrRef*>(this);
CharStrRef_as_str_unchecked(st, d, s) ==
    [st EXCEPT !.mem[d] = Obj("StrRef", st.mem[s].data, st.mem[s].size)]

\* BoxedStr::as_str(): return this->as_str_unchecked();
BoxedStr_as_str(st, d, s) == CharStrRef_as_str_unchecked(st, d, s)

\* BoxedSlice::as_slice(): return MutSliceRef<T>(_data, _size);
BoxedSlice_as_slice(st, d, s) == MutSliceRef_ctor(st, d, st.mem[s].data, st.mem[s].size)

\* BoxedSlice::as_slice() const: return SliceRef<T>(_data, _size);
BoxedSlice_as_slice_const(st, d, s) == SliceRef_ctor(st, d, st.mem[s].data, st.mem[s].size)

\* The copy constructors of the views are all `= default`.
View_copy(st, d, s) == [st EXCEPT !.mem[d] = st.mem[s]]

(***************************************************************************)
(* clone().  The clone functions are on the native side: a call is         *)
(* recorded with the pointer and the length of the object borrowed, and    *)
(* the twin returned is a temporary of the caller.                         *)
(***************************************************************************)
CloneCall(f, p, n) == [fn |-> f, data |-> p, size |-> n]

\* CBoxedStr _rust_ffi_boxed_str_clone(const CBoxedStr* string)
rust_ffi_boxed_str_clone(st, s, v) ==
    [st EXCEPT !.ext = Append(@, CloneCall("_rust_ffi_boxed_str_clone", st.mem[s].data,
                                           st.mem[s].size)),
               !.mem[TEMP] = Obj("CBoxedStr", v.data, v.size)]

\* CBoxedByteSlice _rust_ffi_boxed_bytes_clone(const CBoxedByteSlice* slice)
rust_ffi_boxed_bytes_clone(st, s, v) ==
    [st EXCEPT !.ext = Append(@, CloneCall("_rust_ffi_boxed_bytes_clone", st.mem[s].data,
                                           st.mem[s].size)),
               !.mem[TEMP] = Obj("CBoxedByteSlice", v.data, v.size)]

\* a clone() that copies the fields of the handle and calls nothing
BoxedStr_clone_shallow(st, d, s, v, nrvo) == [st EXCEPT !.mem[d] = st.mem[s]]

\* BoxedStr::clone(): return _rust_ffi_boxed_str_clone(&this->as_c())();
BoxedStr_clone(st, d, s, v, nrvo) ==
    Dtor(CBoxedStr_call(rust_ffi_boxed_str_clone(st, s, v), d, TEMP, nrvo), TEMP)

\* BoxedSlice<uint8_t>::clone():
\* return _rust_ffi_boxed_bytes_clone(reinterpret_cast<const CBoxedByteSlice*>(this))();
BoxedByteSlice_clone(st, d, s, v, nrvo) ==
    Dtor(CBoxedByteSlice_call(rust_ffi_boxed_bytes_clone(st, s, v), d, TEMP, nrvo), TEMP)

\* What a clone function returns for the object o: a new allocation of the
\* length of o, or for an empty o an empty value, whose pointer is the
\* address 1 or null.
CloneValues(o) ==
    IF o.size > 0
    THEN (IF nalloc < NumAllocs + NumClones THEN {SliceRange(NextFresh, o.size)} ELSE {})
    ELSE {SliceRange(NULL, 0), SliceRange(EMPTY_SLICE_BEGIN, 0)}

(***************************************************************************)
(* The program that borrows and clones: a caller that builds views, from   *)
(* pointers, ranges and owners, copies them and clones owned handles.      *)
(***************************************************************************)
\* Pointers and lengths a caller builds a view from.
ViewValues ==
    {SliceRange(NULL, 0), SliceRange(EMPTY_SLICE_BEGIN, 0)}
      \cup {SliceRange(FirstAlloc, n) : n \in Sizes}

SliceViews == {"MutSliceRef", "SliceRef"}
StrViews == {"CharStrRef", "StrRef"}
ViewTwins == {"CMutSliceRef", "CSliceRef", "CByteSliceRef", "CStrRef"}

\* MutSliceRef<T> d;  SliceRef<T> d;
ViewDefault(d, k) ==
    /\ family # "Str" /\ k \in SliceViews
    /\ mem[d] = Dead
    /\ Commit(IF k = "MutSliceRef" THEN MutSliceRef_default(Store(mem), d)
              ELSE SliceRef_default(Store(mem), d), "view_default", TMP, d, NoRange)
    /\ UNCHANGED <<family, impl, twin, nalloc>>

\* CharStrRef d(nullptr);  StrRef d(nullptr);
ViewNullptr(d, k) ==
    /\ family = "Str" /\ k \in StrViews
    /\ mem[d] = Dead
    /\ Commit(IF k = "CharStrRef" THEN CharStrRef_nullptr(Store(mem), d)
              ELSE StrRef_nullptr(Store(mem), d), "view_nullptr", TMP, d, NoRange)
    /\ UNCHANGED <<family, impl, twin, nalloc>>

\* MutSliceRef<T> d(p, n);  SliceRef<T> d(p, n);  CharStrRef d(p, n);
ViewPointer(d, k, v) ==
    /\ k \in (IF family = "Str" THEN {"CharStrRef"} ELSE SliceViews)
    /\ mem[d] = Dead
    /\ Commit(CASE k = "MutSliceRef" -> MutSliceRef_ctor(Store(mem), d, v.data, v.size)
                [] k = "SliceRef" -> SliceRef_ctor(Store(mem), d, v.data, v.size)
                [] k = "CharStrRef" -> CharStrRef_ctor(Store(mem), d, v.data, v.size),
              "view_pointer", TMP, d, v)
    /\ UNCHANGED <<family, impl, twin, nalloc>>

\* MutSliceRef<T> d(range);  SliceRef<T> d(range);  CharStrRef d(range);
ViewRange(d, k, v) ==
    /\ k \in (IF family = "Str" THEN {"CharStrRef"} ELSE SliceViews)
    /\ mem[d] = Dead
    /\ Commit(CASE k = "MutSliceRef" -> MutSliceRef_range_ctor(Store(mem), d, v)
                [] k = "SliceRef" -> SliceRef_range_ctor(Store(mem), d, v)
                [] k = "CharStrRef" -> CharStrRef_range_ctor(Store(mem), d, v),
              "view_range", TMP, d, v)
    /\ UNCHANGED <<family, impl, twin, nalloc>>

\* auto d = s.as_slice();  on a BoxedSlice or on a const BoxedSlice
AsSlice(d, s, const) ==
    /\ mem[s].kind = "BoxedSlice"
    /\ mem[d] = Dead
    /\ Commit(IF const THEN BoxedSlice_as_slice_const(Store(mem), d, s)
              ELSE BoxedSlice_as_slice(Store(mem), d, s), "as_slice", s, d, NoRange)
    /\ UNCHANGED <<family, impl, twin, nalloc>>

\* auto d = s.as_str();
AsStr(d, s) ==
    /\ mem[s].kind = "BoxedStr"
    /\ mem[d] = Dead
    /\ Commit(BoxedStr_as_str(Store(mem), d, s), "as_str", s, d, NoRange)
    /\ UNCHANGED <<family, impl, twin, nalloc>>

\* StrRef d(s);  where s is a BoxedStr
StrRefOf(d, s) ==
    /\ mem[s].kind = "BoxedStr"
    /\ mem[d] = Dead
    /\ Commit(StrRef_from_BoxedStr(Store(mem), d, s), "strref", s, d, NoRange)
    /\ UNCHANGED <<family, impl, twin, nalloc>>

\* V d(s);  where s is a view of type V
ViewCopy(d, s) ==
    /\ mem[s].kind \in ViewKinds
    /\ mem[d] = Dead
    /\ Commit(View_copy(Store(mem), d, s), "viewcopy", s, d, NoRange)
    /\ UNCHANGED <<family, impl, twin, nalloc>>

\* auto d = s.into();  where s is a MutSliceRef or a SliceRef
ViewInto(d, s) ==
    /\ mem[s].kind \in SliceViews
    /\ mem[d] = Dead
    /\ Commit(ViewIntoOf(Store(mem), d, s), "viewinto", s, d, NoRange)
    /\ UNCHANGED <<family, impl, twin, nalloc>>

\* auto d = s();  where s is a CMutSliceRef, a CSliceRef, a CByteSliceRef or
\* a CStrRef
ViewCall(d, s) ==
    /\ mem[s].kind \in ViewTwins
    /\ mem[d] = Dead
    /\ Commit(ViewCallOf(Store(mem), d, s), "viewcall", s, d, NoRange)
    /\ UNCHANGED <<family, impl, twin, nalloc>>

\* auto d = s.into()();  The twin is a temporary.
ViewRoundTrip(d, s) ==
    /\ mem[s].kind \in SliceViews
    /\ mem[d] = Dead
    /\ Commit(Dtor(ViewCallOf(ViewIntoOf(Store(mem), TEMP, s), d, TEMP), TEMP),
              "viewroundtrip", s, d, NoRange)
    /\ UNCHANGED <<family, impl, twin, nalloc>>

\* auto d = s.clone();  The value the clone function returned is recorded.
Clone(d, s, v, nrvo) ==
    /\ family \in {"Str", "ByteSlice"}
    /\ IsOwned(mem[s])
    /\ mem[d] = Dead
    /\ v \in CloneValues(mem[s])
    /\ Commit(IF family = "Str" THEN BoxedStr_clone(Store(mem), d, s, v, nrvo)
              ELSE BoxedByteSlice_clone(Store(mem), d, s, v, nrvo), "clone", s, d, v)
    /\ nalloc' = IF v.data \in Alloc THEN nalloc + 1 ELSE nalloc
    /\ UNCHANGED <<family, impl, twin>>

BorrowInit == Init /\ family # "Box"

BorrowNext ==
    \/ \E d \in FreeSlot : NullCtor(d)
    \/ \E s \in Slots : \E in \in Inputs : Reset(s, in)
    \/ \E s \in Slots : Destroy(s)
    \/ \E d \in FreeSlot : \E k \in ViewKinds : ViewDefault(d, k)
    \/ \E d \in FreeSlot : \E k \in ViewKinds : ViewNullptr(d, k)
    \/ \E d \in FreeSlot : \E k \in ViewKinds : \E v \in ViewValues : ViewPointer(d, k, v)
    \/ \E d \in FreeSlot : \E k \in ViewKinds : \E v \in ViewValues : ViewRange(d, k, v)
    \/ \E d \in FreeSlot, s \in Slots : \E const \in BOOLEAN : AsSlice(d, s, const)
    \/ \E d \in FreeSlot, s \in Slots : AsStr(d, s)
    \/ \E d \in FreeSlot, s \in Slots : StrRefOf(d, s)
    \/ \E d \in FreeSlot, s \in Slots : ViewCopy(d, s)
    \/ \E d \in FreeSlot, s \in Slots : ViewInto(d, s)
    \/ \E d \in FreeSlot, s \in Slots : ViewCall(d, s)
    \/ \E d \in FreeSlot, s \in Slots : ViewRoundTrip(d, s)
    \/ \E d \in FreeSlot, s \in Slots : \E v \in ViewValues \cup {SliceRange(p, n) : p \in Alloc, n \in Sizes} :
          \E nrvo \in BOOLEAN : Clone(d, s, v, nrvo)

BorrowSpec == BorrowInit /\ [][BorrowNext]_vars

\* The twins of the views that a family passes across the boundary.
ViewTwinsOf(f) ==
    CASE f = "Slice" -> {"CMutSliceRef", "CSliceRef"}
      [] f = "ByteSlice" -> {"CByteSliceRef"}
      [] f = "Str" -> {"CStrRef"}
      [] OTHER -> {}

\* extern "C" K signature(K c);  auto d = signature(c);
\* A twin of a view received by value from the other side of the boundary.
\* The twins are trivial types: any pointer and length may arrive.
TwinReceive(d, k, v) ==
    /\ k \in ViewTwinsOf(family)
    /\ mem[d] = Dead
    /\ Commit([Store(mem) EXCEPT !.mem[d] = Obj(k, v.data, v.size)], "twin_receive", TMP, d, v)
    /\ UNCHANGED <<family, impl, twin, nalloc>>

TwinNext ==
    \/ \E s \in Slots : Destroy(s)
    \/ \E d \in FreeSlot : \E k \in ViewKinds : \E v \in ViewValues : ViewPointer(d, k, v)
    \/ \E d \in FreeSlot : \E k \in ViewTwins : \E v \in ViewValues : TwinReceive(d, k, v)
    \/ \E d \in FreeSlot, s \in Slots : ViewCopy(d, s)
    \/ \E d \in FreeSlot, s \in Slots : ViewInto(d, s)
    \/ \E d \in FreeSlot, s \in Slots : ViewCall(d, s)

TwinSpec == BorrowInit /\ [][TwinNext]_vars

\* ---- The opaque handles: DynRef, MutDynRef, DynOwned ----

DynKinds == {"DynRef", "MutDynRef", "DynOwned"}

\* The language standards the header builds under (it falls back when
\* __cpp_lib_ranges and __cpp_lib_span are missing).
CxxStandards == {17, 20}

\* DynRef(const DynRef&) = default; the other two delete the copy constructor
DynCopyable(k) == k = "DynRef"

\* DynRef(DynRef&&) = default; MutDynRef(MutDynRef&&) = default;
\* DynOwned(DynOwned&&) = delete;
DynMovable(k) == k \in {"DynRef", "MutDynRef"}

\* ~DynOwned() = delete; the other two have the implicit trivial destructor
DynDestructible(k) == k # "DynOwned"

\* The three declare their constructors but provide none (= delete, = default)
\* and have two public members: aggregates up to C++17, where a user-declared
\* constructor does not yet prevent aggregate initialization.
DynAggregate(k, std) == k \in DynKinds /\ std < 20

\* {_ptr, _vtable} pairs the native side hands over; data is _ptr, size is _vtable
DynValues == {SliceRange(p, v) : p \in Alloc, v \in Sizes}

\* K d = native();  The native side returns the handle by value.
DynNative(d, k, v) ==
    /\ family = "Dyn"
    /\ mem[d] = Dead
    /\ DynMovable(k) /\ DynDestructible(k)
    /\ Commit([Store(mem) EXCEPT !.mem[d] = Obj(k, v.data, v.size)], "dynnative", TMP, d, v)
    /\ UNCHANGED <<family, impl, twin, nalloc>>

\* K* d = new K{ptr, vtable};  Aggregate initialization; no destructor is needed.
DynBrace(d, k, v, std) ==
    /\ family = "Dyn"
    /\ mem[d] = Dead
    /\ DynAggregate(k, std)
    /\ Commit([Store(mem) EXCEPT !.mem[d] = Obj(k, v.data, v.size)], "dynbrace", TMP, d, v)
    /\ UNCHANGED <<family, impl, twin, nalloc>>

\* K d(s);  The defaulted copy constructor copies both members.
DynCopy(d, s) ==
    /\ family = "Dyn"
    /\ mem[d] = Dead
    /\ mem[s].kind \in DynKinds
    /\ DynCopyable(mem[s].kind)
    /\ Commit([Store(mem) EXCEPT !.mem[d] = mem[s]], "dyncopy", s, d, NoRange)
    /\ UNCHANGED <<family, impl, twin, nalloc>>

\* K d(std::move(s));  The defaulted move constructor copies both members and
\* leaves s as it was.
DynMove(d, s) ==
    /\ family = "Dyn"
    /\ mem[d] = Dead
    /\ mem[s].kind \in DynKinds
    /\ DynMovable(mem[s].kind)
    /\ Commit([Store(mem) EXCEPT !.mem[d] = mem[s]], "dynmove", s, d, NoRange)
    /\ UNCHANGED <<family, impl, twin, nalloc>>

\* The end of the lifetime of an opaque handle: the destructor is trivial.
DynDestroy(c) ==
    /\ family = "Dyn"
    /\ mem[c].kind \in DynKinds
    /\ DynDestructible(mem[c].kind)
    /\ Commit([Store(mem) EXCEPT !.mem[c] = Dead], "dyndestroy", c, c, NoRange)
    /\ UNCHANGED <<family, impl, twin, nalloc>>

DynInit ==
    /\ family = "Dyn"
    /\ impl = "cxx"
    /\ twin = "none"
    /\ mem = [c \in Cells |-> Dead]
    /\ nalloc = 0
    /\ dropCount = [p \in Alloc |-> 0]
    /\ last = NoOp
    /\ heap = <<>>

DynNext ==
    \/ \E d \in FreeSlot, k \in DynKinds, v \in DynValues : DynNative(d, k, v)
    \/ \E d \in FreeSlot, k \in DynKinds, v \in DynValues, std \in CxxStandards :
          DynBrace(d, k, v, std)
    \/ \E d \in FreeSlot, s \in Slots : DynCopy(d, s)
    \/ \E d \in FreeSlot, s \in Slots : DynMove(d, s)
    \/ \E c \in Slots : DynDestroy(c)

DynSpec == DynInit /\ [][DynNext]_vars

(***************************************************************************)
(* The content of the views.  The caller has one buffer of BufLen bytes    *)
(* followed by a terminating zero byte; heap maps its addresses to the     *)
(* bytes.  Views are built over parts of the buffer, read, indexed,        *)
(* iterated and reinterpreted.                                             *)
(***************************************************************************)
\* a zero byte, an ASCII letter, a byte that no UTF-8 text contains
Bytes == {0, 65, 255}

BufBase == FirstAlloc
BufAddrs == BufBase .. (BufBase + BufLen)
Heaps == {h \in [BufAddrs -> Bytes] : h[BufBase + BufLen] = 0}

\* Pointers and lengths inside the buffer, and the two empty pairs.
BufValues ==
    {SliceRange(NULL, 0), SliceRange(EMPTY_SLICE_BEGIN, 0)}
      \cup {v \in {SliceRange(p, n) : p \in BufAddrs, n \in 0 .. BufLen} :
                v.data + v.size <= BufBase + BufLen}

\* a length that counts the terminating zero byte as well
RECURSIVE strlen_with_terminator(_)
strlen_with_terminator(s) == IF heap[s] = 0 THEN 1 ELSE 1 + strlen_with_terminator(s + 1)

\* std::string_view(const char* s) takes traits_type::length(s) characters:
\* the bytes before the first zero byte.
RECURSIVE strlen(_)
strlen(s) == IF heap[s] = 0 THEN 0 ELSE 1 + strlen(s + 1)

\* CharStrRef(const char* s) : CharStrRef(std::string_view(s))
CharStrRef_cstr_ctor(st, d, s) == CharStrRef_range_ctor(st, d, SliceRange(s, strlen(s)))

\* size(): return _size;   data(): return _data;   empty(): return size() == 0;
_SliceInterface_size(o) == o.size
_SliceInterface_data(o) == o.data
_SliceInterface_empty(o) == _SliceInterface_size(o) = 0
CharStrRef_size(o) == o.size
CharStrRef_data(o) == o.data
CharStrRef_empty(o) == CharStrRef_size(o) = 0

\* The objects with the interface of a string, and those with that of a slice.
IsStrLike(o) == o.kind \in {"CharStrRef", "StrRef", "BoxedStr"}
IsSliceLike(o) == o.kind \in {"MutSliceRef", "SliceRef", "BoxedSlice"}

\* std::string_view(p, n) and std::span(p, n) as the pair, and the characters
\* they give.
string_view(p, n) == SliceRange(p, n)
Chars(v) == [i \in 1 .. v.size |-> heap[v.data + i - 1]]

\* view(): return std::string_view(data(), size());
CharStrRef_view(o) == string_view(CharStrRef_data(o), CharStrRef_size(o))

\* an equality that compares the addresses of the views too
CharStrRef_eq_identity(a, b) == CharStrRef_view(a) = CharStrRef_view(b)

\* operator==(const CharStrRef& other): return view() == other.view();
\* Two string views are equal when they have the same characters.
CharStrRef_eq(a, b) == Chars(CharStrRef_view(a)) = Chars(CharStrRef_view(b))

\* begin(): span().begin() or data();   end(): begin() + size();
_SliceInterface_begin(o) == _SliceInterface_data(o)
_SliceInterface_end(o) == _SliceInterface_begin(o) + _SliceInterface_size(o)

\* an rbegin() that starts at begin()
_SliceInterface_rbegin_at_begin(o) == _SliceInterface_begin(o)

\* rbegin(): reverse_iterator(end());   rend(): reverse_iterator(begin());
\* A reverse iterator is given by the iterator it is built from.
_SliceInterface_rbegin(o) == _SliceInterface_end(o)
_SliceInterface_rend(o) == _SliceInterface_begin(o)

\* begin(): return view().begin();  end(): return begin() + size();
\* rbegin() and rend() as above
CharStrRef_begin(o) == CharStrRef_view(o).data
CharStrRef_end(o) == CharStrRef_begin(o) + CharStrRef_size(o)
CharStrRef_rbegin(o) == CharStrRef_end(o)
CharStrRef_rend(o) == CharStrRef_begin(o)

\* The member functions by the type of the object.
View_begin(o) == IF IsStrLike(o) THEN CharStrRef_begin(o) ELSE _SliceInterface_begin(o)
View_end(o) == IF IsStrLike(o) THEN CharStrRef_end(o) ELSE _SliceInterface_end(o)
View_rbegin(o) == IF IsStrLike(o) THEN CharStrRef_rbegin(o) ELSE _SliceInterface_rbegin(o)
View_rend(o) == IF IsStrLike(o) THEN CharStrRef_rend(o) ELSE _SliceInterface_rend(o)
View_size(o) == IF IsStrLike(o) THEN CharStrRef_size(o) ELSE _SliceInterface_size(o)
View_empty(o) == IF IsStrLike(o) THEN CharStrRef_empty(o) ELSE _SliceInterface_empty(o)
View_data(o) == IF IsStrLike(o) THEN CharStrRef_data(o) ELSE _SliceInterface_data(o)

\* for (auto it = first; it != last; ++it) out.push_back(*it);
RECURSIVE Forward(_, _)
Forward(it, e) == IF it = e THEN <<>> ELSE <<heap[it]>> \o Forward(it + 1, e)

\* the same loop over reverse iterators: *it is the element before the
\* iterator it was built from, ++it moves that iterator back.
RECURSIVE Reverse(_, _)
Reverse(it, e) == IF it = e THEN <<>> ELSE <<heap[it - 1]>> \o Reverse(it - 1, e)

\* What an out-of-range read may give in a build without assertions: any
\* byte, or the end of the program.
UBOutcomes == {[val |-> b, fail |-> FALSE] : b \in Bytes} \cup {[val |-> 0, fail |-> TRUE]}

\* The outcomes to consider for s[idx]: those of an out-of-range read when
\* nothing stops it, otherwise none is used.
OutcomesOf(s, idx, ndebug) ==
    IF ndebug /\ idx >= mem[s].size THEN UBOutcomes ELSE {[val |-> 0, fail |-> FALSE]}

\* an operator[] whose assertion lets idx == size() through
_SliceInterface_index_off_by_one(st, s, idx, ndebug, ub) ==
    LET o == st.mem[s]
        at == _SliceInterface_data(o) + idx
        a == assert([st EXCEPT !.ret = [addr |-> at, val |-> 0]], idx <= _SliceInterface_size(o), ndebug)
    IN  IF a.fail THEN a
        ELSE IF _SliceInterface_data(o) + idx \in BufAddrs
        THEN [a EXCEPT !.ret.val = heap[at]]
        ELSE [a EXCEPT !.ret.val = ub.val, !.fail = ub.fail]

\* operator[](size_type idx): assert(idx < this->size()); return this->data()[idx];
_SliceInterface_index(st, s, idx, ndebug, ub) ==
    LET o == st.mem[s]
        at == _SliceInterface_data(o) + idx
        a == assert([st EXCEPT !.ret = [addr |-> at, val |-> 0]], idx < _SliceInterface_size(o), ndebug)
    IN  IF a.fail THEN a
        ELSE IF idx < _SliceInterface_size(o)
        THEN [a EXCEPT !.ret.val = heap[at]]
        ELSE [a EXCEPT !.ret.val = ub.val, !.fail = ub.fail]

\* CharStrRef::operator[](size_type idx): assert(idx < this->size());
\* return this->data()[idx];
CharStrRef_index(st, s, idx, ndebug, ub) ==
    LET o == st.mem[s]
        at == CharStrRef_data(o) + idx
        a == assert([st EXCEPT !.ret = [addr |-> at, val |-> 0]], idx < CharStrRef_size(o), ndebug)
    IN  IF a.fail THEN a
        ELSE IF idx < CharStrRef_size(o)
        THEN [a EXCEPT !.ret.val = heap[at]]
        ELSE [a EXCEPT !.ret.val = ub.val, !.fail = ub.fail]

\* an as_char_str() that gives the empty view for bytes that are not UTF-8
MutSliceRef_as_char_str_checked(st, d, s) ==
    IF \E i \in 1 .. st.mem[s].size : heap[st.mem[s].data + i - 1] = 255
    THEN CharStrRef_nullptr(st, d)
    ELSE CharStrRef_ctor(st, d, st.mem[s].data, st.mem[s].size)

\* MutSliceRef<const uint8_t>::as_char_str():
\* return CharStrRef(reinterpret_cast<const char*>(_data), _size);
MutSliceRef_as_char_str(st, d, s) == CharStrRef_ctor(st, d, st.mem[s].data, st.mem[s].size)

\* MutSliceRef<const uint8_t>::as_str_unchecked():
\* return as_char_str().as_str_unchecked();
MutSliceRef_as_str_unchecked(st, d, s) ==
    Dtor(CharStrRef_as_str_unchecked(MutSliceRef_as_char_str(st, TEMP, s), d, TEMP), TEMP)

\* CharStrRef d("...");  The literal is the part of the buffer from p on.
StrLiteral(d, p) ==
    /\ family = "Str"
    /\ mem[d] = Dead
    /\ Commit(CharStrRef_cstr_ctor(Store(mem), d, p), "str_literal", TMP, d, SliceRange(p, 0))
    /\ UNCHANGED <<family, impl, twin, nalloc>>

\* auto d = s.as_char_str();  where s is a SliceRef<uint8_t>, whose base is
\* MutSliceRef<const uint8_t>
AsCharStr(d, s) ==
    /\ family = "ByteSlice" /\ mem[s].kind = "SliceRef"
    /\ mem[d] = Dead
    /\ Commit(MutSliceRef_as_char_str(Store(mem), d, s), "as_char_str", s, d, NoRange)
    /\ UNCHANGED <<family, impl, twin, nalloc>>

\* auto d = s.as_str_unchecked();  where s is a SliceRef<uint8_t>
AsStrUnchecked(d, s) ==
    /\ family = "ByteSlice" /\ mem[s].kind = "SliceRef"
    /\ mem[d] = Dead
    /\ Commit(MutSliceRef_as_str_unchecked(Store(mem), d, s), "as_str_unchecked", s, d, NoRange)
    /\ UNCHANGED <<family, impl, twin, nalloc>>

\* auto d = s.as_str_unchecked();  where s is a CharStrRef
CharAsStr(d, s) ==
    /\ mem[s].kind = "CharStrRef"
    /\ mem[d] = Dead
    /\ Commit(CharStrRef_as_str_unchecked(Store(mem), d, s), "char_as_str", s, d, NoRange)
    /\ UNCHANGED <<family, impl, twin, nalloc>>

\* s[idx];  in a build with assertions or with NDEBUG defined
Index(s, idx, ndebug, ub) ==
    /\ IsStrLike(mem[s]) \/ IsSliceLike(mem[s])
    /\ LET st == IF IsStrLike(mem[s]) THEN CharStrRef_index(Store(mem), s, idx, ndebug, ub)
                 ELSE _SliceInterface_index(Store(mem), s, idx, ndebug, ub)
       IN  Commit(st, IF ndebug THEN "index_ndebug" ELSE "index", s, TMP,
                  [idx |-> idx, addr |-> st.ret.addr, val |-> st.ret.val])
    /\ UNCHANGED <<family, impl, twin, nalloc>>

\* for (auto it = s.begin(); it != s.end(); ++it) ...;
\* for (auto it = s.rbegin(); it != s.rend(); ++it) ...;
Iterate(s) ==
    /\ IsStrLike(mem[s]) \/ IsSliceLike(mem[s])
    /\ Commit(Store(mem), "iterate", s, TMP,
              [fwd |-> Forward(View_begin(mem[s]), View_end(mem[s])),
               rev |-> Reverse(View_rbegin(mem[s]), View_rend(mem[s]))])
    /\ UNCHANGED <<family, impl, twin, nalloc>>

ContentInit ==
    /\ family \in {"ByteSlice", "Str"}
    /\ impl = "cxx"
    /\ twin = (IF family = "Str" THEN "CBoxedStr" ELSE "CBoxedByteSlice")
    /\ mem = [c \in Cells |-> Dead]
    /\ nalloc = 0
    /\ dropCount = [p \in Alloc |-> 0]
    /\ last = NoOp
    /\ heap \in Heaps

\* At most MaxViews objects are alive.
ContentSlot == {d \in FreeSlot : d <= MaxViews}

ContentNext ==
    \/ \E d \in ContentSlot : NullCtor(d)
    \/ \E s \in Slots : Destroy(s)
    \/ \E d \in ContentSlot : \E k \in ViewKinds : ViewDefault(d, k)
    \/ \E d \in ContentSlot : \E k \in ViewKinds : ViewNullptr(d, k)
    \/ \E d \in ContentSlot : \E k \in ViewKinds : \E v \in BufValues : ViewPointer(d, k, v)
    \/ \E d \in ContentSlot : \E k \in ViewKinds : \E v \in BufValues : ViewRange(d, k, v)
    \/ \E d \in ContentSlot : \E p \in BufAddrs : StrLiteral(d, p)
    \/ \E d \in ContentSlot, s \in Slots : ViewCopy(d, s)
    \/ \E d \in ContentSlot, s \in Slots : AsCharStr(d, s)
    \/ \E d \in ContentSlot, s \in Slots : AsStrUnchecked(d, s)
    \/ \E d \in ContentSlot, s \in Slots : CharAsStr(d, s)
    \/ \E s \in Slots : \E idx \in 0 .. BufLen : \E ndebug \in BOOLEAN :
          \E ub \in OutcomesOf(s, idx, ndebug) : Index(s, idx, ndebug, ub)
    \/ \E s \in Slots : Iterate(s)

ContentSpec == ContentInit /\ [][ContentNext]_vars

(***************************************************************************)
(* ranges::data and the element access of the views.  The header selects   *)
(* ranges::data by the feature macros of the standard library, and its     *)
(* fallback by the representation of the iterator of the range.            *)
(***************************************************************************)
\* an iterator that is the pointer itself, a class of the size of a pointer
\* that holds it, any other class
IteratorKinds == {"pointer", "wrapped", "class"}

\* A build: __cpp_lib_ranges and __cpp_lib_span defined or not, and the
\* representation of the iterators of std::string_view and std::span in its
\* library.  A library with <ranges> has <span>.
Builds == {b \in [ranges : BOOLEAN, span : BOOLEAN, it : IteratorKinds] : b.ranges => b.span}

\* the type `iterator` of the view: std::string_view::iterator for CharStrRef;
\* std::span<T>::iterator with __cpp_lib_span, else `pointer`, for the slices
IteratorOf(o, b) ==
    IF IsStrLike(o) THEN b.it ELSE IF b.span THEN b.it ELSE "pointer"

\* std::ranges::data(c) of a class with a member data() is c.data()
std_ranges_data(o) == View_data(o)

\* template <typename C> auto data(C& x):  auto begin = x.begin();
\*   iterator is the pointer type: return begin;
\*   sizeof(iterator_type) == sizeof(uintptr_t):
\*       return *reinterpret_cast<pointer_type*>(&begin);
\*   else: if (begin != x.end()) return &*begin; else return nullptr;
ranges_data_fallback(o, it) ==
    CASE it = "pointer" -> View_begin(o)
      [] it = "wrapped" -> View_begin(o)
      [] it = "class" -> IF View_begin(o) # View_end(o) THEN View_begin(o) ELSE NULL

\* ffi_types::ranges::data: using std::ranges::data with __cpp_lib_ranges,
\* the template above without
ffi_types_ranges_data(o, b) ==
    IF b.ranges THEN std_ranges_data(o) ELSE ranges_data_fallback(o, IteratorOf(o, b))

\* auto data = ffi_types::ranges::data(s);  in the build b
RangesData(s, b) ==
    /\ mem[s].kind \in ViewKinds
    /\ IsStrLike(mem[s]) \/ IsSliceLike(mem[s])
    /\ Commit(Store(mem), "ranges_data", s, TMP,
              [ranges |-> b.ranges, it |-> IteratorOf(mem[s], b),
               data |-> ffi_types_ranges_data(mem[s], b)])
    /\ UNCHANGED <<family, impl, twin, nalloc>>

\* size_type is uintptr_t: its arithmetic is modulo 2^UsizeBits.
UsizeBits == 8
usize(n) == n % (2 ^ UsizeBits)

\* The outcomes to consider for the element idx of s: those of an
\* out-of-range read when it is one, otherwise none is used.
ReadOutcomes(s, idx) ==
    IF idx >= mem[s].size THEN UBOutcomes ELSE {[val |-> 0, fail |-> FALSE]}

\* this->data()[idx] with nothing before it: the element when there is one,
\* otherwise undefined.  ret.ub tells that the read was out of range.
ElementAt(st, s, idx, ub) ==
    LET o == st.mem[s]
        at == usize(View_data(o) + idx)
    IN  IF idx < View_size(o)
        THEN [st EXCEPT !.ret = [idx |-> idx, addr |-> at, val |-> heap[at], ub |-> FALSE]]
        ELSE [st EXCEPT !.ret = [idx |-> idx, addr |-> at, val |-> ub.val, ub |-> TRUE],
                        !.fail = ub.fail]

\* front(): return this->data()[0];
\* the same in _SliceInterface and in CharStrRef
_SliceInterface_front(st, s, ub) == ElementAt(st, s, 0, ub)

\* back(): return this->data()[size() - 1];
\* the same in _SliceInterface and in CharStrRef
_SliceInterface_back(st, s, ub) == ElementAt(st, s, usize(View_size(st.mem[s]) - 1), ub)

\* s.front();
Front(s, ub) ==
    /\ mem[s].kind \in ViewKinds
    /\ IsStrLike(mem[s]) \/ IsSliceLike(mem[s])
    /\ LET st == _SliceInterface_front(Store(mem), s, ub)
       IN  Commit(st, "front", s, TMP, st.ret)
    /\ UNCHANGED <<family, impl, twin, nalloc>>

\* s.back();
Back(s, ub) ==
    /\ mem[s].kind \in ViewKinds
    /\ IsStrLike(mem[s]) \/ IsSliceLike(mem[s])
    /\ LET st == _SliceInterface_back(Store(mem), s, ub)
       IN  Commit(st, "back", s, TMP, st.ret)
    /\ UNCHANGED <<family, impl, twin, nalloc>>

AccessNext ==
    \/ \E s \in Slots : Destroy(s)
    \/ \E d \in ContentSlot : \E k \in ViewKinds : ViewNullptr(d, k)
    \/ \E d \in ContentSlot : \E k \in ViewKinds : \E v \in BufValues : ViewPointer(d, k, v)
    \/ \E d \in ContentSlot : \E p \in BufAddrs : StrLiteral(d, p)
    \/ \E s \in Slots : \E b \in Builds : RangesData(s, b)
    \/ \E s \in Slots : \E idx \in 0 .. BufLen : \E ndebug \in BOOLEAN :
          \E ub \in OutcomesOf(s, idx, ndebug) : Index(s, idx, ndebug, ub)
    \/ \E s \in Slots : \E ub \in ReadOutcomes(s, 0) : Front(s, ub)
    \/ \E s \in Slots : \E ub \in ReadOutcomes(s, usize(mem[s].size - 1)) : Back(s, ub)

AccessSpec == ContentInit /\ [][AccessNext]_vars

(***************************************************************************)
(* The layout of the owned types and of their twins, and as_c().           *)
(***************************************************************************)
\* a layout in which CBoxedSlice declares its length before its pointer
Fields_length_first(k) ==
    CASE k \in BoxKinds -> <<"data">>
      [] k = "CBoxedSlice" -> <<"size", "data">>
      [] OTHER -> <<"data", "size">>

\* The members of each type in the order of their declaration: T* _ptr of
\* OptionBox and CBox (kept in data), _data and _size of the others, where
\* BoxedSlice has those of its base MutSliceRef and BoxedStr those of its
\* base CharStrRef.
Fields(k) ==
    CASE k = "OptionBox" -> <<"data">>
      [] k = "CBox" -> <<"data">>
      [] k = "BoxedSlice" -> <<"data", "size">>
      [] k = "CBoxedSlice" -> <<"data", "size">>
      [] k = "CBoxedByteSlice" -> <<"data", "size">>
      [] k = "BoxedStr" -> <<"data", "size">>
      [] k = "CBoxedStr" -> <<"data", "size">>

\* The object as the sequence of its words in memory.
Words(o) == [i \in 1 .. Len(Fields(o.kind)) |-> o[Fields(o.kind)[i]]]

\* The member f of an object of type k laid over the words w.
Member(k, w, f) ==
    IF \E i \in 1 .. Len(Fields(k)) : Fields(k)[i] = f
    THEN w[CHOOSE i \in 1 .. Len(Fields(k)) : Fields(k)[i] = f]
    ELSE 0

\* *reinterpret_cast<K*>(&o): the words of o read as an object of type k
reinterpret_cast(k, o) == Obj(k, Member(k, Words(o), "data"), Member(k, Words(o), "size"))

\* as_c(): OptionBox as CBox, BoxedSlice as CBoxedSlice, BoxedStr as const CBoxedStr
AsCType(k) ==
    CASE k = "OptionBox" -> "CBox"
      [] k = "BoxedSlice" -> "CBoxedSlice"
      [] k = "BoxedStr" -> "CBoxedStr"

as_c(o) == reinterpret_cast(AsCType(o.kind), o)

\* const auto& c = s.as_c();  with c._ptr, or c._data and c._size, read
AsC(s) ==
    /\ IsOwned(mem[s])
    /\ Commit(Store(mem), "as_c", s, TMP, SliceRange(as_c(mem[s]).data, as_c(mem[s]).size))
    /\ UNCHANGED <<family, impl, twin, nalloc>>

\* auto& c = s.as_c();  c._ptr = p;  or  c._data = p; c._size = n;
\* The bytes written are those of s.  BoxedStr has the const as_c() only.
AsCWrite(s, in) ==
    /\ mem[s].kind \in {"OptionBox", "BoxedSlice"}
    /\ LET c == Obj(AsCType(mem[s].kind), in.r.data, in.r.size)
       IN  Commit([Store(mem) EXCEPT !.mem[s] = reinterpret_cast(mem[s].kind, c)],
                  "as_c_write", s, TMP, in.r)
    /\ Consume(in)
    /\ UNCHANGED <<family, impl, twin>>

LayoutNext ==
    \/ \E d \in FreeSlot : \E in \in Inputs : Wrap(d, in)
    \/ \E d \in FreeSlot : NullCtor(d)
    \/ \E s \in Slots : \E in \in Inputs : Reset(s, in)
    \/ \E s \in Slots : ReleaseOp(s)
    \/ \E s \in Slots : Destroy(s)
    \/ \E s \in Slots : AsC(s)
    \/ \E s \in Slots : \E in \in Inputs : AsCWrite(s, in)

LayoutSpec == Init /\ [][LayoutNext]_vars

TypeOK ==
    /\ family \in Families
    /\ impl \in Impls
    /\ twin \in TwinsOf(family)
    /\ \A c \in Cells : mem[c].kind \in OwnedKinds \cup TwinKinds \cup ViewKinds \cup {"dead"}
    /\ mem[TMP] = Dead /\ mem[ARG] = Dead /\ mem[TEMP] = Dead
    /\ nalloc \in 0 .. (NumAllocs + NumClones)

(***************************************************************************)
(* Vocabulary of the properties.                                           *)
(***************************************************************************)
IsBox(o) == o.kind = "OptionBox"
IsSliceOrStr(o) == o.kind \in {"BoxedSlice", "BoxedStr"}

\* An owned handle that holds nothing: a null box, or (sentinel, 0).
IsEmptyHandle(o) ==
    IF o.kind \in BoxKinds THEN o.data = NULL
    ELSE o.data = EMPTY_SLICE_BEGIN /\ o.size = 0

HeldRange(o) == SliceRange(o.data, o.size)

\* The owned handles that hold allocation p.
Owners(p) == {s \in Slots : IsOwned(mem[s]) /\ mem[s].data = p}

\* Destroying an empty owned handle makes no drop call.
EmptyDestroyIsSilent ==
    (last.op = "destroy" /\ IsOwned(last.pre) /\ IsEmptyHandle(last.pre)) => last.log = <<>>

\* C1: at most one owned handle (OptionBox, BoxedSlice, BoxedStr) holds a
\* given allocation, in every state reached by construction from native or
\* released values, move, move assignment, release, reset, conversion to and
\* from a twin, as_c() and destruction.
C1_SingleOwner == \A p \in Alloc : Cardinality(Owners(p)) <= 1

\* C2: the drop operation is invoked at most once for any given allocation.
C2_NoDoubleFree == \A p \in Alloc : dropCount[p] <= 1

\* C3: release() of an owned handle returns exactly the pointer (and the
\* length) the handle held, leaves the handle empty, makes no drop call, and
\* the destruction of the handle in that state makes no drop call.
C3_Release ==
    /\ (last.op = "release" /\ IsOwned(last.pre)) =>
          /\ last.ret = HeldRange(last.pre)
          /\ mem[last.h].kind = last.pre.kind
          /\ IsEmptyHandle(mem[last.h])
          /\ last.log = <<>>
    /\ EmptyDestroyIsSilent

C3_Witness ==
    /\ last.op = "release"
    /\ IsOwned(last.pre)
    /\ last.pre.data \in Alloc
    /\ last.ret.data \in Alloc

\* C4: move construction of H2 from H leaves H empty, gives H2 exactly the
\* pointer and the length H held, makes no drop call, and the destruction of
\* H afterwards makes no drop call.
C4_MoveCtor ==
    /\ last.op = "move" =>
          /\ HeldRange(mem[last.d]) = HeldRange(last.pre)
          /\ mem[last.d].kind = last.pre.kind
          /\ IsEmptyHandle(mem[last.h])
          /\ last.log = <<>>
    /\ EmptyDestroyIsSilent

\* C5: converting an owned slice or string to its twin and the twin back
\* gives a handle with the pointer and the length the first one had, and no
\* drop call is made, the destruction of the temporaries included.
C5_RoundTrip ==
    (last.op = "roundtrip" /\ IsSliceOrStr(last.pre)) =>
        /\ HeldRange(mem[last.d]) = HeldRange(last.pre)
        /\ mem[last.d].kind = last.pre.kind
        /\ last.log = <<>>

\* C6: converting an owned box to a CBox leaves the box null, gives the CBox
\* the pointer the box held and makes no drop call; nor does the destruction
\* of the box afterwards.
C6_BoxInto ==
    /\ (last.op = "into" /\ IsBox(last.pre)) =>
          /\ mem[last.h] = Obj("OptionBox", NULL, 0)
          /\ mem[last.d] = Obj("CBox", last.pre.data, 0)
          /\ last.log = <<>>
    /\ EmptyDestroyIsSilent

C6_Witness ==
    /\ last.op = "into"
    /\ IsBox(last.pre)
    /\ last.pre.data \in Alloc
    /\ mem[last.d].data = last.pre.data

\* C7: converting an owned slice or string to any of its twins leaves the
\* source empty and gives the twin the pointer and the length it held; the
\* destruction of the source afterwards makes no drop call.
C7_SliceInto ==
    /\ (last.op = "into" /\ IsSliceOrStr(last.pre)) =>
          /\ IsEmptyHandle(mem[last.h])
          /\ HeldRange(mem[last.d]) = HeldRange(last.pre)
          /\ last.log = <<>>
    /\ EmptyDestroyIsSilent

\* C8: operator()() of a twin gives the owned handle the pointer and the
\* length of the twin, leaves the twin empty and makes no drop call; a second
\* operator()() on the twin gives an empty handle.
C8_CallExact ==
    last.op = "call" =>
        /\ HeldRange(mem[last.d]) = HeldRange(last.pre)
        /\ IsEmptyHandle(mem[last.h])
        /\ last.log = <<>>

\* C8 as amended: the owned handle gets the length of the twin and its
\* pointer, where a null pointer of a slice or string twin may arrive as the
\* sentinel address; the twin is left empty, no drop call is made, and
\* operator()() on an empty twin gives an empty handle, whose destruction
\* makes no drop call.
C8_Call ==
    /\ last.op = "call" =>
          /\ mem[last.d].kind = OwnedOf(family)
          /\ mem[last.d].size = last.pre.size
          /\ \/ mem[last.d].data = last.pre.data
             \/ /\ last.pre.kind \notin BoxKinds
                /\ last.pre.data = NULL
                /\ mem[last.d].data = EMPTY_SLICE_BEGIN
          /\ IsEmptyHandle(mem[last.h])
          /\ last.log = <<>>
          /\ IsEmptyHandle(last.pre) => IsEmptyHandle(mem[last.d])
    /\ EmptyDestroyIsSilent

C8_Witness ==
    /\ last.op = "call"
    /\ IsTwin(last.pre)
    /\ last.pre.data \in Alloc
    /\ mem[last.d].data = last.pre.data
    /\ IsEmptyHandle(mem[last.h])

\* C9: the destruction of an owned box makes exactly one drop call, with the
\* pointer held, when the pointer is not null, and none when it is null.
C9_BoxDtor ==
    (last.op = "destroy" /\ IsBox(last.pre)) =>
        last.log = IF last.pre.data # NULL
                   THEN <<DropCall("OptionBox::_drop", last.pre.data, 0)>>
                   ELSE <<>>

C9_Witness ==
    /\ last.op = "destroy"
    /\ IsBox(last.pre)
    /\ last.pre.data \in Alloc
    /\ Len(last.log) = 1

\* C10: the destruction of a BoxedStr or of a BoxedSlice<uint8_t> calls the
\* external drop function exactly once, with the pointer and the length held,
\* when the length is greater than 0 and whatever the pointer is, and not at
\* all when the length is 0.
C10_DropForwarding ==
    (/\ last.op = "destroy"
     /\ \/ last.pre.kind = "BoxedStr"
        \/ last.pre.kind = "BoxedSlice" /\ family = "ByteSlice") =>
        last.log = IF last.pre.size > 0
                   THEN <<DropCall(IF last.pre.kind = "BoxedStr"
                                   THEN "_rust_ffi_boxed_str_drop"
                                   ELSE "_rust_ffi_boxed_bytes_drop",
                                   last.pre.data, last.pre.size)>>
                   ELSE <<>>

C10_Witness ==
    /\ last.op = "destroy"
    /\ last.pre.kind \in {"BoxedStr", "BoxedSlice"}
    /\ family \in {"Str", "ByteSlice"}
    /\ last.pre.size > 0
    /\ Len(last.log) = 1

\* An owned handle that holds a value its destructor gives back.
IsNonEmpty(o) == IF o.kind \in BoxKinds THEN o.data # NULL ELSE o.size > 0

\* C11: reset() of an owned handle makes exactly one drop call, with the
\* pointer and the length held before, when the handle is not empty (pointer
\* not null for a box, length greater than 0 for a slice or a string) and
\* none when it is empty; afterwards the handle holds the pointer and the
\* length given.
C11_Reset ==
    last.op = "reset" =>
        /\ IF IsNonEmpty(last.pre)
           THEN /\ Len(last.log) = 1
                /\ last.log[1].data = last.pre.data
                /\ last.log[1].size = last.pre.size
           ELSE last.log = <<>>
        /\ mem[last.h].kind = last.pre.kind
        /\ HeldRange(mem[last.h]) =
              (IF IsBox(last.pre) THEN SliceRange(last.ret.data, 0) ELSE last.ret)

C11_Witness ==
    /\ last.op = "reset"
    /\ IsNonEmpty(last.pre)
    /\ last.pre.data \in Alloc
    /\ Len(last.log) = 1
    /\ HeldRange(mem[last.h]) # HeldRange(last.pre)

\* C12: no leak through owned handles; in particular a move assignment onto
\* a handle that holds a value makes one drop call with that value.
C12_NoLeak ==
    (last.op = "assign" /\ last.h # last.d /\ IsNonEmpty(last.dpre)) =>
        /\ Len(last.log) = 1
        /\ last.log[1].data = last.dpre.data
        /\ last.log[1].size = last.dpre.size

\* C13: the destruction of a boundary twin (CBox, CBoxedSlice, CBoxedStr,
\* CBoxedByteSlice) makes no drop call, whatever it holds, and the twin that
\* is the temporary of a conversion there and back is discarded without one:
\* what only a twin holds is never dropped.
C13_TwinDtor ==
    /\ (last.op = "destroy" /\ IsTwin(last.pre)) =>
          /\ last.log = <<>>
          /\ mem[last.h] = Dead
    /\ last.op = "roundtrip" => last.log = <<>>

C13_Witness ==
    /\ last.op = "destroy"
    /\ IsTwin(last.pre)
    /\ last.pre.data \in Alloc
    /\ dropCount[last.pre.data] = 0
    /\ \A s \in Slots : mem[s].data # last.pre.data

\* C14: the boundary twins of the owned types cannot be copied: no state has
\* two twins, one made from the other by copy construction or copy
\* assignment, that hold the same allocation.
C14_MoveOnly ==
    ~ /\ last.op \in {"twincopy", "twincopyassign"}
      /\ last.h # last.d
      /\ IsTwin(mem[last.h]) /\ IsTwin(mem[last.d])
      /\ mem[last.d].data \in Alloc
      /\ mem[last.h].data = mem[last.d].data

\* C15: after a move construction or a move assignment from a boundary twin
\* (CBox, CBoxedSlice, CBoxedStr) the source twin is null or empty: only the
\* destination carries the allocation.
C15_TwinMovedFrom ==
    (/\ last.op \in {"twinmove", "twinassign"}
     /\ last.h # last.d
     /\ IsTwin(last.pre)
     /\ last.pre.data \in Alloc) =>
        /\ HeldRange(mem[last.d]) = HeldRange(last.pre)
        /\ mem[last.h].data \notin Alloc

\* C18: an owned slice or string of length 0 never holds a null data pointer
\* (it holds the sentinel address), after construction from nullptr, move,
\* move assignment, release, reset and operator()() of a twin, where the range
\* or the twin given may carry any pointer with length 0.
C18_OwnedSentinel ==
    \A s \in Slots : (IsSliceOrStr(mem[s]) /\ mem[s].size = 0) => mem[s].data # NULL

\* C16: a mutable borrowed view (MutSliceRef, CMutSliceRef) cannot be
\* duplicated: no copy gives a second live mutable view of the same memory.
C16_NoMutCopy ==
    ~ /\ last.op = "viewcopy"
      /\ last.pre.kind \in MutViewKinds
      /\ last.pre.size > 0
      /\ mem[last.h] = last.pre
      /\ mem[last.d] = last.pre

\* the constructions of C17: by default, from nullptr, from a null pointer
\* with length 0, from an empty range, and of an owned slice or string from
\* nullptr
IsEmptyConstruction ==
    \/ last.op \in {"view_default", "view_nullptr"}
    \/ last.op = "view_pointer" /\ last.ret = SliceRange(NULL, 0)
    \/ last.op = "view_range" /\ last.ret.size = 0
    \/ last.op = "null" /\ IsSliceOrStr(mem[last.d])

CloneFn == IF family = "Str" THEN "_rust_ffi_boxed_str_clone" ELSE "_rust_ffi_boxed_bytes_clone"

\* what holds of clone() and of the destruction of source and clone, whatever
\* the clone function returned
CloneFrame ==
    /\ last.op = "clone" =>
          /\ last.ext = <<CloneCall(CloneFn, last.pre.data, last.pre.size)>>
          /\ mem[last.h] = last.pre
          /\ last.log = <<>>
          /\ mem[last.d].kind = last.pre.kind
          /\ last.ret.data \in Alloc =>
                /\ mem[last.d].size = last.pre.size
                /\ mem[last.d].data # last.pre.data
    /\ (last.op = "destroy" /\ IsSliceOrStr(last.pre) /\ family \in {"Str", "ByteSlice"}) =>
          IF last.pre.size > 0
          THEN /\ Len(last.log) = 1
               /\ last.log[1].data = last.pre.data
               /\ last.log[1].size = last.pre.size
          ELSE last.log = <<>>
    /\ \A p \in Alloc : dropCount[p] <= 1

\* C19: clone() of a BoxedStr or a BoxedSlice<uint8_t> calls the clone
\* function once with the pointer and the length of the handle, leaves the
\* handle unchanged, makes no drop call and returns a handle that holds
\* exactly what the function returned; a fresh allocation returned has the
\* length of the source and another pointer, and the destruction of both
\* handles drops each allocation once.
C19_CloneExact ==
    /\ CloneFrame
    /\ last.op = "clone" => HeldRange(mem[last.d]) = last.ret

\* C19 as amended: the handle returned holds the length and the pointer the
\* function returned, where a null pointer returned (with length 0) may be
\* held as the sentinel address.
C19_Clone ==
    /\ CloneFrame
    /\ last.op = "clone" =>
          \/ HeldRange(mem[last.d]) = last.ret
          \/ /\ last.ret = SliceRange(NULL, 0)
             /\ HeldRange(mem[last.d]) = SliceRange(EMPTY_SLICE_BEGIN, 0)

\* source and clone have both been destroyed
C19_Witness ==
    /\ last.op = "destroy"
    /\ \A p \in Alloc : dropCount[p] = 1
    /\ \A s \in Slots : ~IsOwned(mem[s])

\* C20: a view borrowed from an owner (as_slice, as_str, StrRef from a
\* BoxedStr) has the pointer and the length of the owner, the owner is left
\* unchanged and no drop call is made, nor by the copy or the destruction of
\* a view.
C20_Borrow ==
    /\ last.op \in {"as_slice", "as_str", "strref"} =>
          /\ HeldRange(mem[last.d]) = HeldRange(last.pre)
          /\ mem[last.d].kind \in ViewKinds
          /\ mem[last.h] = last.pre
          /\ last.log = <<>>
    /\ last.op = "viewcopy" => last.log = <<>>
    /\ (last.op = "destroy" /\ last.pre.kind \in ViewKinds) => last.log = <<>>

\* C21: into() of a borrowed slice (MutSliceRef, SliceRef) leaves the slice
\* unchanged and gives a twin with its pointer and length, so that it can be
\* repeated; operator()() of the twin, and into()() as a whole, give a view
\* with the pointer and the length of the slice.
C21_ViewInto ==
    /\ last.op = "viewinto" =>
          /\ mem[last.h] = last.pre
          /\ mem[last.d].kind \in ViewTwins
          /\ HeldRange(mem[last.d]) = HeldRange(last.pre)
    /\ last.op = "viewcall" =>
          /\ mem[last.h] = last.pre
          /\ mem[last.d].kind \in SliceViews
          /\ HeldRange(mem[last.d]) = HeldRange(last.pre)
    /\ last.op = "viewroundtrip" =>
          /\ mem[last.h] = last.pre
          /\ mem[last.d] = last.pre
    /\ last.op \in {"viewinto", "viewcall", "viewroundtrip"} => last.log = <<>>

\* into() has been applied twice to one slice that views memory
C21_Witness ==
    /\ last.op = "viewinto"
    /\ last.pre.size > 0
    /\ \E s \in Slots : s # last.d /\ mem[s] = mem[last.d]

\* C22: a DynRef can be copied, a MutDynRef can be moved and is never copied,
\* a DynOwned is never constructed, copied, moved or destroyed locally, and no
\* operation on any of the three makes a drop call.
C22_Dyn ==
    /\ last.op = "dyncopy" => last.pre.kind = "DynRef"
    /\ last.op = "dynmove" => last.pre.kind \in {"DynRef", "MutDynRef"}
    /\ last.op = "dyndestroy" => last.pre.kind # "DynOwned"
    /\ \A c \in Slots : mem[c].kind # "DynOwned"
    /\ last.log = <<>>
    /\ \A p \in Alloc : dropCount[p] = 0

\* C23: for every nullable owned box, operator bool() and operator!=(nullptr)
\* are true exactly when the pointer held is not null and operator==(nullptr)
\* is their negation; they are true after wrapping a non-null pointer and false
\* after release(), after a move to another box and after construction from
\* null.
C23_Observers ==
    /\ \A s \in Slots : IsBox(mem[s]) =>
          /\ OptionBox_bool(Store(mem), s) = (mem[s].data # NULL)
          /\ OptionBox_ne_null(Store(mem), s) = OptionBox_bool(Store(mem), s)
          /\ OptionBox_eq_null(Store(mem), s) = ~OptionBox_bool(Store(mem), s)
    /\ (last.op = "wrap" /\ last.ret.data # NULL) => OptionBox_bool(Store(mem), last.d)
    /\ (last.op = "wrap" /\ last.ret.data = NULL) => OptionBox_eq_null(Store(mem), last.d)
    /\ (last.op = "null" /\ IsBox(mem[last.d])) =>
          /\ ~OptionBox_bool(Store(mem), last.d)
          /\ OptionBox_eq_null(Store(mem), last.d)
    /\ (last.op \in {"release", "move", "assign"} /\ IsBox(last.pre) /\ last.h # last.d) =>
          /\ ~OptionBox_bool(Store(mem), last.h)
          /\ ~OptionBox_ne_null(Store(mem), last.h)
          /\ OptionBox_eq_null(Store(mem), last.h)

\* a box that held an allocation has been released and compares equal to null
C23_Witness ==
    /\ last.op = "release"
    /\ IsBox(last.pre)
    /\ last.pre.data \in Alloc
    /\ OptionBox_eq_null(Store(mem), last.h)
    /\ \E s \in Slots : IsBox(mem[s]) /\ OptionBox_bool(Store(mem), s)

\* C24: an OptionBox constructed from a null pointer is empty, and its
\* destruction makes no drop call; the construction of a Box from a null
\* pointer fails its assertion in a build with assertions; an OptionBox or a
\* Box constructed from a non-null pointer p holds exactly p, and the
\* construction makes no drop call.
C24_Wrap ==
    /\ ((last.op = "wrap" /\ last.ret.data = NULL) \/ (last.op = "null" /\ family = "Box")) =>
          /\ ~last.fail
          /\ IsBox(mem[last.d])
          /\ mem[last.d].data = NULL
          /\ last.log = <<>>
    /\ EmptyDestroyIsSilent
    /\ (last.op = "wrapbox" /\ last.ret.data = NULL) => last.fail
    /\ (last.op \in {"wrap", "wrapbox", "wrapbox_ndebug"} /\ last.ret.data # NULL) =>
          /\ ~last.fail
          /\ IsBox(mem[last.d])
          /\ mem[last.d].data = last.ret.data
          /\ last.log = <<>>

\* the construction of a Box from a null pointer has aborted the program
C24_Witness ==
    /\ last.op = "wrapbox"
    /\ last.ret.data = NULL
    /\ last.fail
    /\ \A c \in Cells : mem[c] = Dead

\* the n bytes of the buffer from the address p on
BufferBytes(p, n) == [i \in 1 .. n |-> heap[p + i - 1]]

\* the number of characters of the null-terminated string at the address p
CStringLength(p) ==
    CHOOSE n \in 0 .. BufLen : heap[p + n] = 0 /\ \A i \in 0 .. (n - 1) : heap[p + i] # 0

\* C25: a CharStrRef constructed from a buffer and a length n has size n and
\* views the first n bytes of the buffer; one constructed from a
\* null-terminated literal has the characters of the literal, one constructed
\* from a range (std::string, std::string_view, std::array) has all the
\* elements of the range; a copy of a view has the content of the view.
C25_CharStr ==
    /\ (last.op = "view_pointer" /\ mem[last.d].kind = "CharStrRef"
          /\ last.ret.data \in BufAddrs) =>
          /\ CharStrRef_size(mem[last.d]) = last.ret.size
          /\ Chars(CharStrRef_view(mem[last.d])) = BufferBytes(last.ret.data, last.ret.size)
    /\ last.op = "str_literal" =>
          /\ CharStrRef_size(mem[last.d]) = CStringLength(last.ret.data)
          /\ Chars(CharStrRef_view(mem[last.d])) =
                BufferBytes(last.ret.data, CStringLength(last.ret.data))
    /\ (last.op = "view_range" /\ mem[last.d].kind = "CharStrRef") =>
          /\ CharStrRef_size(mem[last.d]) = last.ret.size
          /\ Chars(CharStrRef_view(mem[last.d])) = BufferBytes(last.ret.data, last.ret.size)
    /\ (last.op = "viewcopy" /\ IsStrLike(last.pre)) =>
          /\ mem[last.h] = last.pre
          /\ CharStrRef_size(mem[last.d]) = CharStrRef_size(last.pre)
          /\ Chars(CharStrRef_view(mem[last.d])) = Chars(CharStrRef_view(last.pre))

\* a view has been constructed from a literal of BufLen characters
C25_Witness ==
    /\ last.op = "str_literal"
    /\ CharStrRef_size(mem[last.d]) = BufLen
    /\ Chars(CharStrRef_view(mem[last.d])) = BufferBytes(BufBase, BufLen)

\* C26: a CharStrRef constructed from nullptr or from an empty range, a
\* StrRef constructed from nullptr and a BoxedStr holding (sentinel, 0) have
\* size 0 and a view equal to the empty string and to the view of
\* CharStrRef(sentinel, 0).
C26_EmptyStr ==
    LET raw == CharStrRef_ctor(Store(mem), TMP, EMPTY_SLICE_BEGIN, 0).mem[TMP]
        form == \/ last.op = "view_nullptr"
                \/ last.op = "view_range" /\ last.ret.size = 0
                \/ last.op = "null"
    IN  (family = "Str" /\ form) =>
          /\ CharStrRef_size(mem[last.d]) = 0
          /\ Chars(CharStrRef_view(mem[last.d])) = <<>>
          /\ CharStrRef_eq(mem[last.d], raw)
          /\ CharStrRef_eq(raw, mem[last.d])

\* a view has been constructed from an empty range that has an address
C26_Witness ==
    /\ family = "Str"
    /\ last.op = "view_range"
    /\ last.ret.size = 0
    /\ last.ret.data \in BufAddrs
    /\ mem[last.d].data = last.ret.data

\* C27: s[idx] with idx < size() gives the element at data() + idx; with
\* idx >= size() it fails the assertion in a build with assertions.
C27_Index ==
    /\ (last.op \in {"index", "index_ndebug"} /\ last.ret.idx < View_size(last.pre)) =>
          /\ ~last.fail
          /\ last.ret.addr = View_data(last.pre) + last.ret.idx
          /\ last.ret.val = heap[View_data(last.pre) + last.ret.idx]
    /\ (last.op = "index" /\ last.ret.idx >= View_size(last.pre)) => last.fail

\* a view of some elements has been indexed with its size
C27_Witness ==
    /\ last.op = "index"
    /\ View_size(last.pre) > 0
    /\ last.ret.idx = View_size(last.pre)
    /\ last.fail

\* C28: empty() holds exactly when size() is 0, end() is begin() + size(),
\* begin() equals end() exactly when the view is empty, the forward loop gives
\* data()[0] to data()[size() - 1] in this order and the reverse loop gives
\* them in the opposite order: all are functions of the pointer and the
\* length stored.
C28_Iteration ==
    /\ \A s \in Slots : (IsStrLike(mem[s]) \/ IsSliceLike(mem[s])) =>
          /\ View_size(mem[s]) = mem[s].size
          /\ View_begin(mem[s]) = mem[s].data
          /\ View_empty(mem[s]) <=> (View_size(mem[s]) = 0)
          /\ View_end(mem[s]) = View_begin(mem[s]) + View_size(mem[s])
          /\ (View_begin(mem[s]) = View_end(mem[s])) <=> View_empty(mem[s])
    /\ last.op = "iterate" =>
          /\ mem[last.h] = last.pre
          /\ last.ret.fwd = [i \in 1 .. last.pre.size |-> heap[last.pre.data + i - 1]]
          /\ last.ret.rev = [i \in 1 .. last.pre.size |->
                                heap[last.pre.data + last.pre.size - i]]

\* a view of BufLen elements that differ has been iterated both ways
C28_Witness ==
    /\ last.op = "iterate"
    /\ last.pre.size = BufLen
    /\ last.ret.fwd # last.ret.rev

C29_Layout ==
    /\ \A k \in OwnedKinds : Fields(k) = Fields(AsCType(k))
    /\ Fields("BoxedSlice") = Fields("CBoxedByteSlice")
    /\ last.op = "as_c" =>
          /\ last.ret = HeldRange(last.pre)
          /\ mem[last.h] = last.pre
          /\ last.log = <<>>
    /\ last.op = "as_c_write" =>
          /\ HeldRange(mem[last.h]) = last.ret
          /\ mem[last.h].kind = last.pre.kind
          /\ last.log = <<>>

\* an owned slice has been given an allocation through its twin reference
C29_Witness ==
    /\ last.op = "as_c_write"
    /\ last.pre.kind = "BoxedSlice"
    /\ last.ret.data \in Alloc
    /\ last.ret.size > 0
    /\ mem[last.h].data = last.ret.data

\* C31: for every slice or character view c, a view of length 0 whose data
\* pointer is neither null nor the sentinel included, ranges::data(c) returns
\* exactly c.data().
C31_RangesData ==
    last.op = "ranges_data" => last.ret.data = View_data(mem[last.h])

\* C35: every element access on a slice or string view (operator[], front(),
\* back()) either reads an index in the range 0 to size()-1 or fails an
\* assertion; front() and back() on an empty view read neither index 0 nor
\* the index size()-1 computed with unsigned wrap-around.  Stated for the
\* builds with assertions; front() and back() have the same code in all.
C35_ElementAccess ==
    /\ last.op = "index" => (last.ret.idx < last.pre.size \/ last.fail)
    /\ last.op \in {"front", "back"} =>
          (last.ret.idx < last.pre.size \/ (last.fail /\ ~last.ret.ub))

\* C32: operator()() of a borrowed twin (CSliceRef, CMutSliceRef,
\* CByteSliceRef, CStrRef) replaces a null data pointer by the sentinel and
\* preserves the length: the view it gives never carries a null data pointer.
C32_TwinCall ==
    (last.op = "viewcall" /\ last.pre.kind \in ViewTwins) =>
        /\ mem[last.d].kind \in ViewKinds \ ViewTwins
        /\ mem[last.d].size = last.pre.size
        /\ mem[last.d].data = (IF last.pre.data = NULL THEN EMPTY_SLICE_BEGIN ELSE last.pre.data)
        /\ mem[last.d].data # NULL

\* C33: after _drop() returns on a BoxedStr or a BoxedSlice<uint8_t> the
\* handle is empty (sentinel pointer, length 0), so destroying it afterwards
\* makes no second call to the external drop function; with both drop
\* implementations of the byte slice.
C33_DropEmpties ==
    /\ last.op = "drop" => (Len(last.log) = 1 /\ IsEmptyHandle(mem[last.h]))
    /\ last.op = "drop_destroy" => Len(last.log) = 1

\* C34: move-assigning an owned handle (OptionBox, BoxedSlice, BoxedStr) to
\* itself leaves it holding the same pointer and length as before and makes
\* no drop call.
C34_SelfAssign ==
    (last.op = "assign" /\ last.h = last.d) =>
        /\ mem[last.d] = last.pre
        /\ last.log = <<>>
        /\ ~last.fail

\* a handle that holds an allocation was assigned to itself
C34_Witness ==
    /\ last.op = "assign" /\ last.h = last.d
    /\ last.pre.data \in Alloc
    /\ mem[last.d] = last.pre

\* C36 as stated: destroying or resetting an OptionBox<void> that holds a
\* non-null pointer fails the assertion in _drop() (in every build); one that
\* holds null, was released or was converted to a CBox<void> is destroyed
\* with no drop call and no assertion failure.
C36_VoidDropAsserts ==
    (last.op \in {"destroy", "destroy_ndebug", "reset", "reset_ndebug"}
       /\ last.pre.kind = "OptionBox") =>
        /\ last.log = <<>>
        /\ last.fail <=> last.pre.data # NULL

\* C36: in a build with assertions, destroying or resetting an OptionBox<void>
\* that holds a non-null pointer fails the assertion in _drop(); with NDEBUG
\* the same makes no drop call and fails nothing.  An OptionBox<void> that
\* holds null, was released or was converted to a CBox<void> is destroyed
\* with no drop call and no assertion failure in both.
C36_VoidDrop ==
    (last.op \in {"destroy", "destroy_ndebug", "reset", "reset_ndebug"}
       /\ last.pre.kind = "OptionBox") =>
        /\ last.log = <<>>
        /\ last.fail <=> (last.pre.data # NULL /\ last.op \in {"destroy", "reset"})
        /\ (last.op = "reset_ndebug") => mem[last.h].data = last.ret.data

\* a box of void holding an allocation was destroyed and the assertion failed
C36_Witness ==
    /\ last.op = "destroy" /\ last.pre.kind = "OptionBox"
    /\ last.pre.data \in Alloc
    /\ last.fail

====
